---- MODULE Spec2Model ----
(***************************************************************************)
(* Model of the AI Speech Persona Builder backend: the metrics-and-scoring *)
(* engine (backend/agents/metrics.py, backend/agents/coach_engine.py,      *)
(* backend/agents/persona_profiles.py) and the service that calls it       *)
(* (backend/main.py, backend/agents/tts_murf.py,                           *)
(* backend/logs/session_logger.py).                                        *)
(*                                                                         *)
(* Representation of values                                                *)
(*   - a character is its Unicode code point and a transcript is the       *)
(*     sequence of its characters;                                         *)
(*   - a duration is an integer number of hundredths of a second           *)
(*     (duration 3000 is 30.0 s, 5 is 0.05 s, -500 is -5.0 s);             *)
(*   - a float (wpm, fillersPerMin, an unrounded score) is an IEEE 754     *)
(*     double [neg, m, e] of value m * 2^e, and the arithmetic on floats   *)
(*     rounds as the processor does;                                       *)
(*   - a value rounded by round(x, k) is the integer count of 10^-k units  *)
(*     of the result (fillersPerMin in hundredths, scores in thousandths); *)
(*     the float itself is the double nearest to that decimal;             *)
(*   - a request that a handler has begun and not answered is an element   *)
(*     of the bag inflight; the steps of different requests interleave.    *)
(***************************************************************************)
EXTENDS Integers, Sequences, FiniteSets, Bags, TLC

VARIABLES
    pc,          \* "ready" before a call has returned, "done" after it
    op,          \* name of the function that returned last ("" before)
    transcript,  \* argument: the transcript text
    duration,    \* argument: duration_seconds, in hundredths of a second
    filler_list, \* argument: list of filler phrases
    metrics,     \* argument of the scorer: [wpm, fillersPerMin] floats
    persona,     \* argument of the scorer: an encoded persona value
    result,      \* the value returned (or the exception raised) by that call
    PERSONAS,       \* persona_profiles.PERSONAS: persona id -> targets
    attempt_cache,  \* main.attempt_cache: attempt id -> [personaId, coachingText]
    session_log,    \* the lines appended to logs/sessions.jsonl
    inflight,       \* the requests a handler has begun and not answered yet
    calls           \* history: the analyze_speech calls that returned a payload

service == <<PERSONAS, attempt_cache, session_log, inflight, calls>>

vars == <<pc, op, transcript, duration, filler_list, metrics, persona, result,
          PERSONAS, attempt_cache, session_log, inflight, calls>>

---------------------------------------------------------------------------
(* Characters *)
(* A character is its Unicode code point (ord(c), 0 .. 1114111) and a      *)
(* string is the sequence of its characters.  The classes of characters    *)
(* are those of Python 3.11 (Unicode 14.0.0).                              *)

\* the printable ASCII characters, U+0020 .. U+007E (U+0060, which a string
\* literal cannot hold, is left out: its place holds "")
Ascii == <<
    " ", "!", "\"", "#", "$", "%", "&", "'", "(", ")", "*", "+", ",", "-", ".", "/",
    "0", "1", "2", "3", "4", "5", "6", "7", "8", "9", ":", ";", "<", "=", ">", "?",
    "@", "A", "B", "C", "D", "E", "F", "G", "H", "I", "J", "K", "L", "M", "N", "O",
    "P", "Q", "R", "S", "T", "U", "V", "W", "X", "Y", "Z", "[", "\\", "]", "^", "_",
    "", "a", "b", "c", "d", "e", "f", "g", "h", "i", "j", "k", "l", "m", "n", "o",
    "p", "q", "r", "s", "t", "u", "v", "w", "x", "y", "z", "{", "|", "}", "~" >>

\* the string whose characters are those of s, a sequence of printable ASCII
\* characters: ord(ch) is 31 more than the place of ch in Ascii
Str(s) == [i \in DOMAIN s |-> 31 + CHOOSE k \in DOMAIN Ascii : Ascii[k] = s[i]]

\* the list of the strings of ws
Strs(ws) == [i \in DOMAIN ws |-> Str(ws[i])]

RECURSIVE Concat(_)
Concat(ps) == IF ps = <<>> THEN <<>> ELSE Head(ps) \o Concat(Tail(ps))

\* the index of the row of table that holds c, or 0; a row is width numbers,
\* of which the first two are the first and the last character of the row,
\* and the rows are in increasing order
RECURSIVE RowOf(_, _, _, _, _)
RowOf(table, width, c, lo, hi) ==
    IF lo > hi THEN 0
    ELSE IF c < table[width * ((lo + hi) \div 2) - width + 1]
    THEN RowOf(table, width, c, lo, (lo + hi) \div 2 - 1)
    ELSE IF c > table[width * ((lo + hi) \div 2) - width + 2]
    THEN RowOf(table, width, c, (lo + hi) \div 2 + 1, hi)
    ELSE (lo + hi) \div 2

\* c is in one of the ranges first, last of table
InRanges(table, c) == RowOf(table, 2, c, 1, Len(table) \div 2) # 0

\* regex class \w of a str pattern (Unicode-aware): [a-zA-Z0-9_] and the
\* alphanumeric characters beyond ASCII; the table holds the characters from
\* U+0080 on that \w matches, as ranges first, last
IsWordChar(c) ==
    IF c < 128
    THEN c \in 48..57 \/ c \in 65..90 \/ c = 95 \/ c \in 97..122
    ELSE InRanges(<<
    170,170, 178,179, 181,181, 185,186, 188,190, 192,214,
    216,246, 248,705, 710,721, 736,740, 748,748, 750,750,
    880,884, 886,887, 890,893, 895,895, 902,902, 904,906,
    908,908, 910,929, 931,1013, 1015,1153, 1162,1327, 1329,1366,
    1369,1369, 1376,1416, 1488,1514, 1519,1522, 1568,1610, 1632,1641,
    1646,1647, 1649,1747, 1749,1749, 1765,1766, 1774,1788, 1791,1791,
    1808,1808, 1810,1839, 1869,1957, 1969,1969, 1984,2026, 2036,2037,
    2042,2042, 2048,2069, 2074,2074, 2084,2084, 2088,2088, 2112,2136,
    2144,2154, 2160,2183, 2185,2190, 2208,2249, 2308,2361, 2365,2365,
    2384,2384, 2392,2401, 2406,2415, 2417,2432, 2437,2444, 2447,2448,
    2451,2472, 2474,2480, 2482,2482, 2486,2489, 2493,2493, 2510,2510,
    2524,2525, 2527,2529, 2534,2545, 2548,2553, 2556,2556, 2565,2570,
    2575,2576, 2579,2600, 2602,2608, 2610,2611, 2613,2614, 2616,2617,
    2649,2652, 2654,2654, 2662,2671, 2674,2676, 2693,2701, 2703,2705,
    2707,2728, 2730,2736, 2738,2739, 2741,2745, 2749,2749, 2768,2768,
    2784,2785, 2790,2799, 2809,2809, 2821,2828, 2831,2832, 2835,2856,
    2858,2864, 2866,2867, 2869,2873, 2877,2877, 2908,2909, 2911,2913,
    2918,2927, 2929,2935, 2947,2947, 2949,2954, 2958,2960, 2962,2965,
    2969,2970, 2972,2972, 2974,2975, 2979,2980, 2984,2986, 2990,3001,
    3024,3024, 3046,3058, 3077,3084, 3086,3088, 3090,3112, 3114,3129,
    3133,3133, 3160,3162, 3165,3165, 3168,3169, 3174,3183, 3192,3198,
    3200,3200, 3205,3212, 3214,3216, 3218,3240, 3242,3251, 3253,3257,
    3261,3261, 3293,3294, 3296,3297, 3302,3311, 3313,3314, 3332,3340,
    3342,3344, 3346,3386, 3389,3389, 3406,3406, 3412,3414, 3416,3425,
    3430,3448, 3450,3455, 3461,3478, 3482,3505, 3507,3515, 3517,3517,
    3520,3526, 3558,3567, 3585,3632, 3634,3635, 3648,3654, 3664,3673,
    3713,3714, 3716,3716, 3718,3722, 3724,3747, 3749,3749, 3751,3760,
    3762,3763, 3773,3773, 3776,3780, 3782,3782, 3792,3801, 3804,3807,
    3840,3840, 3872,3891, 3904,3911, 3913,3948, 3976,3980, 4096,4138,
    4159,4169, 4176,4181, 4186,4189, 4193,4193, 4197,4198, 4206,4208,
    4213,4225, 4238,4238, 4240,4249, 4256,4293, 4295,4295, 4301,4301,
    4304,4346, 4348,4680, 4682,4685, 4688,4694, 4696,4696, 4698,4701,
    4704,4744, 4746,4749, 4752,4784, 4786,4789, 4792,4798, 4800,4800,
    4802,4805, 4808,4822, 4824,4880, 4882,4885, 4888,4954, 4969,4988,
    4992,5007, 5024,5109, 5112,5117, 5121,5740, 5743,5759, 5761,5786,
    5792,5866, 5870,5880, 5888,5905, 5919,5937, 5952,5969, 5984,5996,
    5998,6000, 6016,6067, 6103,6103, 6108,6108, 6112,6121, 6128,6137,
    6160,6169, 6176,6264, 6272,6276, 6279,6312, 6314,6314, 6320,6389,
    6400,6430, 6470,6509, 6512,6516, 6528,6571, 6576,6601, 6608,6618,
    6656,6678, 6688,6740, 6784,6793, 6800,6809, 6823,6823, 6917,6963,
    6981,6988, 6992,7001, 7043,7072, 7086,7141, 7168,7203, 7232,7241,
    7245,7293, 7296,7304, 7312,7354, 7357,7359, 7401,7404, 7406,7411,
    7413,7414, 7418,7418, 7424,7615, 7680,7957, 7960,7965, 7968,8005,
    8008,8013, 8016,8023, 8025,8025, 8027,8027, 8029,8029, 8031,8061,
    8064,8116, 8118,8124, 8126,8126, 8130,8132, 8134,8140, 8144,8147,
    8150,8155, 8160,8172, 8178,8180, 8182,8188, 8304,8305, 8308,8313,
    8319,8329, 8336,8348, 8450,8450, 8455,8455, 8458,8467, 8469,8469,
    8473,8477, 8484,8484, 8486,8486, 8488,8488, 8490,8493, 8495,8505,
    8508,8511, 8517,8521, 8526,8526, 8528,8585, 9312,9371, 9450,9471,
    10102,10131, 11264,11492, 11499,11502, 11506,11507, 11517,11517, 11520,11557,
    11559,11559, 11565,11565, 11568,11623, 11631,11631, 11648,11670, 11680,11686,
    11688,11694, 11696,11702, 11704,11710, 11712,11718, 11720,11726, 11728,11734,
    11736,11742, 11823,11823, 12293,12295, 12321,12329, 12337,12341, 12344,12348,
    12353,12438, 12445,12447, 12449,12538, 12540,12543, 12549,12591, 12593,12686,
    12690,12693, 12704,12735, 12784,12799, 12832,12841, 12872,12879, 12881,12895,
    12928,12937, 12977,12991, 13312,19903, 19968,42124, 42192,42237, 42240,42508,
    42512,42539, 42560,42606, 42623,42653, 42656,42735, 42775,42783, 42786,42888,
    42891,42954, 42960,42961, 42963,42963, 42965,42969, 42994,43009, 43011,43013,
    43015,43018, 43020,43042, 43056,43061, 43072,43123, 43138,43187, 43216,43225,
    43250,43255, 43259,43259, 43261,43262, 43264,43301, 43312,43334, 43360,43388,
    43396,43442, 43471,43481, 43488,43492, 43494,43518, 43520,43560, 43584,43586,
    43588,43595, 43600,43609, 43616,43638, 43642,43642, 43646,43695, 43697,43697,
    43701,43702, 43705,43709, 43712,43712, 43714,43714, 43739,43741, 43744,43754,
    43762,43764, 43777,43782, 43785,43790, 43793,43798, 43808,43814, 43816,43822,
    43824,43866, 43868,43881, 43888,44002, 44016,44025, 44032,55203, 55216,55238,
    55243,55291, 63744,64109, 64112,64217, 64256,64262, 64275,64279, 64285,64285,
    64287,64296, 64298,64310, 64312,64316, 64318,64318, 64320,64321, 64323,64324,
    64326,64433, 64467,64829, 64848,64911, 64914,64967, 65008,65019, 65136,65140,
    65142,65276, 65296,65305, 65313,65338, 65345,65370, 65382,65470, 65474,65479,
    65482,65487, 65490,65495, 65498,65500, 65536,65547, 65549,65574, 65576,65594,
    65596,65597, 65599,65613, 65616,65629, 65664,65786, 65799,65843, 65856,65912,
    65930,65931, 66176,66204, 66208,66256, 66273,66299, 66304,66339, 66349,66378,
    66384,66421, 66432,66461, 66464,66499, 66504,66511, 66513,66517, 66560,66717,
    66720,66729, 66736,66771, 66776,66811, 66816,66855, 66864,66915, 66928,66938,
    66940,66954, 66956,66962, 66964,66965, 66967,66977, 66979,66993, 66995,67001,
    67003,67004, 67072,67382, 67392,67413, 67424,67431, 67456,67461, 67463,67504,
    67506,67514, 67584,67589, 67592,67592, 67594,67637, 67639,67640, 67644,67644,
    67647,67669, 67672,67702, 67705,67742, 67751,67759, 67808,67826, 67828,67829,
    67835,67867, 67872,67897, 67968,68023, 68028,68047, 68050,68096, 68112,68115,
    68117,68119, 68121,68149, 68160,68168, 68192,68222, 68224,68255, 68288,68295,
    68297,68324, 68331,68335, 68352,68405, 68416,68437, 68440,68466, 68472,68497,
    68521,68527, 68608,68680, 68736,68786, 68800,68850, 68858,68899, 68912,68921,
    69216,69246, 69248,69289, 69296,69297, 69376,69415, 69424,69445, 69457,69460,
    69488,69505, 69552,69579, 69600,69622, 69635,69687, 69714,69743, 69745,69746,
    69749,69749, 69763,69807, 69840,69864, 69872,69881, 69891,69926, 69942,69951,
    69956,69956, 69959,69959, 69968,70002, 70006,70006, 70019,70066, 70081,70084,
    70096,70106, 70108,70108, 70113,70132, 70144,70161, 70163,70187, 70272,70278,
    70280,70280, 70282,70285, 70287,70301, 70303,70312, 70320,70366, 70384,70393,
    70405,70412, 70415,70416, 70419,70440, 70442,70448, 70450,70451, 70453,70457,
    70461,70461, 70480,70480, 70493,70497, 70656,70708, 70727,70730, 70736,70745,
    70751,70753, 70784,70831, 70852,70853, 70855,70855, 70864,70873, 71040,71086,
    71128,71131, 71168,71215, 71236,71236, 71248,71257, 71296,71338, 71352,71352,
    71360,71369, 71424,71450, 71472,71483, 71488,71494, 71680,71723, 71840,71922,
    71935,71942, 71945,71945, 71948,71955, 71957,71958, 71960,71983, 71999,71999,
    72001,72001, 72016,72025, 72096,72103, 72106,72144, 72161,72161, 72163,72163,
    72192,72192, 72203,72242, 72250,72250, 72272,72272, 72284,72329, 72349,72349,
    72368,72440, 72704,72712, 72714,72750, 72768,72768, 72784,72812, 72818,72847,
    72960,72966, 72968,72969, 72971,73008, 73030,73030, 73040,73049, 73056,73061,
    73063,73064, 73066,73097, 73112,73112, 73120,73129, 73440,73458, 73648,73648,
    73664,73684, 73728,74649, 74752,74862, 74880,75075, 77712,77808, 77824,78894,
    82944,83526, 92160,92728, 92736,92766, 92768,92777, 92784,92862, 92864,92873,
    92880,92909, 92928,92975, 92992,92995, 93008,93017, 93019,93025, 93027,93047,
    93053,93071, 93760,93846, 93952,94026, 94032,94032, 94099,94111, 94176,94177,
    94179,94179, 94208,100343, 100352,101589, 101632,101640, 110576,110579, 110581,110587,
    110589,110590, 110592,110882, 110928,110930, 110948,110951, 110960,111355, 113664,113770,
    113776,113788, 113792,113800, 113808,113817, 119520,119539, 119648,119672, 119808,119892,
    119894,119964, 119966,119967, 119970,119970, 119973,119974, 119977,119980, 119982,119993,
    119995,119995, 119997,120003, 120005,120069, 120071,120074, 120077,120084, 120086,120092,
    120094,120121, 120123,120126, 120128,120132, 120134,120134, 120138,120144, 120146,120485,
    120488,120512, 120514,120538, 120540,120570, 120572,120596, 120598,120628, 120630,120654,
    120656,120686, 120688,120712, 120714,120744, 120746,120770, 120772,120779, 120782,120831,
    122624,122654, 123136,123180, 123191,123197, 123200,123209, 123214,123214, 123536,123565,
    123584,123627, 123632,123641, 124896,124902, 124904,124907, 124909,124910, 124912,124926,
    124928,125124, 125127,125135, 125184,125251, 125259,125259, 125264,125273, 126065,126123,
    126125,126127, 126129,126132, 126209,126253, 126255,126269, 126464,126467, 126469,126495,
    126497,126498, 126500,126500, 126503,126503, 126505,126514, 126516,126519, 126521,126521,
    126523,126523, 126530,126530, 126535,126535, 126537,126537, 126539,126539, 126541,126543,
    126545,126546, 126548,126548, 126551,126551, 126553,126553, 126555,126555, 126557,126557,
    126559,126559, 126561,126562, 126564,126564, 126567,126570, 126572,126578, 126580,126583,
    126585,126588, 126590,126590, 126592,126601, 126603,126619, 126625,126627, 126629,126633,
    126635,126651, 127232,127244, 130032,130041, 131072,173791, 173824,177976, 177984,178205,
    178208,183969, 183984,191456, 194560,195101, 196608,201546 >>, c)

\* regex class [\w'-]
IsTokenChar(c) == IsWordChar(c) \/ c = 39 \/ c = 45

\* the characters str.split() and str.strip() treat as white space
\* (str.isspace); the table holds them as ranges first, last
IsSpace(c) ==
    InRanges(<<
    9,13, 28,32, 133,133, 160,160, 5760,5760, 8192,8202,
    8232,8233, 8239,8239, 8287,8287, 12288,12288 >>, c)

\* the characters from U+0080 on that str.lower() changes, as rows
\* first, last, step, delta: every step-th character c from first to last
\* becomes c + delta
LowerRuns == <<
    192,214,1,32, 216,222,1,32, 256,302,2,1, 306,310,2,1,
    313,327,2,1, 330,374,2,1, 376,376,1,-121, 377,381,2,1,
    385,385,1,210, 386,388,2,1, 390,390,1,206, 391,391,1,1,
    393,394,1,205, 395,395,1,1, 398,398,1,79, 399,399,1,202,
    400,400,1,203, 401,401,1,1, 403,403,1,205, 404,404,1,207,
    406,406,1,211, 407,407,1,209, 408,408,1,1, 412,412,1,211,
    413,413,1,213, 415,415,1,214, 416,420,2,1, 422,422,1,218,
    423,423,1,1, 425,425,1,218, 428,428,1,1, 430,430,1,218,
    431,431,1,1, 433,434,1,217, 435,437,2,1, 439,439,1,219,
    440,440,1,1, 444,444,1,1, 452,452,1,2, 453,453,1,1,
    455,455,1,2, 456,456,1,1, 458,458,1,2, 459,475,2,1,
    478,494,2,1, 497,497,1,2, 498,500,2,1, 502,502,1,-97,
    503,503,1,-56, 504,542,2,1, 544,544,1,-130, 546,562,2,1,
    570,570,1,10795, 571,571,1,1, 573,573,1,-163, 574,574,1,10792,
    577,577,1,1, 579,579,1,-195, 580,580,1,69, 581,581,1,71,
    582,590,2,1, 880,882,2,1, 886,886,1,1, 895,895,1,116,
    902,902,1,38, 904,906,1,37, 908,908,1,64, 910,911,1,63,
    913,929,1,32, 931,939,1,32, 975,975,1,8, 984,1006,2,1,
    1012,1012,1,-60, 1015,1015,1,1, 1017,1017,1,-7, 1018,1018,1,1,
    1021,1023,1,-130, 1024,1039,1,80, 1040,1071,1,32, 1120,1152,2,1,
    1162,1214,2,1, 1216,1216,1,15, 1217,1229,2,1, 1232,1326,2,1,
    1329,1366,1,48, 4256,4293,1,7264, 4295,4295,1,7264, 4301,4301,1,7264,
    5024,5103,1,38864, 5104,5109,1,8, 7312,7354,1,-3008, 7357,7359,1,-3008,
    7680,7828,2,1, 7838,7838,1,-7615, 7840,7934,2,1, 7944,7951,1,-8,
    7960,7965,1,-8, 7976,7983,1,-8, 7992,7999,1,-8, 8008,8013,1,-8,
    8025,8031,2,-8, 8040,8047,1,-8, 8072,8079,1,-8, 8088,8095,1,-8,
    8104,8111,1,-8, 8120,8121,1,-8, 8122,8123,1,-74, 8124,8124,1,-9,
    8136,8139,1,-86, 8140,8140,1,-9, 8152,8153,1,-8, 8154,8155,1,-100,
    8168,8169,1,-8, 8170,8171,1,-112, 8172,8172,1,-7, 8184,8185,1,-128,
    8186,8187,1,-126, 8188,8188,1,-9, 8486,8486,1,-7517, 8490,8490,1,-8383,
    8491,8491,1,-8262, 8498,8498,1,28, 8544,8559,1,16, 8579,8579,1,1,
    9398,9423,1,26, 11264,11311,1,48, 11360,11360,1,1, 11362,11362,1,-10743,
    11363,11363,1,-3814, 11364,11364,1,-10727, 11367,11371,2,1, 11373,11373,1,-10780,
    11374,11374,1,-10749, 11375,11375,1,-10783, 11376,11376,1,-10782, 11378,11378,1,1,
    11381,11381,1,1, 11390,11391,1,-10815, 11392,11490,2,1, 11499,11501,2,1,
    11506,11506,1,1, 42560,42604,2,1, 42624,42650,2,1, 42786,42798,2,1,
    42802,42862,2,1, 42873,42875,2,1, 42877,42877,1,-35332, 42878,42886,2,1,
    42891,42891,1,1, 42893,42893,1,-42280, 42896,42898,2,1, 42902,42920,2,1,
    42922,42922,1,-42308, 42923,42923,1,-42319, 42924,42924,1,-42315, 42925,42925,1,-42305,
    42926,42926,1,-42308, 42928,42928,1,-42258, 42929,42929,1,-42282, 42930,42930,1,-42261,
    42931,42931,1,928, 42932,42946,2,1, 42948,42948,1,-48, 42949,42949,1,-42307,
    42950,42950,1,-35384, 42951,42953,2,1, 42960,42960,1,1, 42966,42968,2,1,
    42997,42997,1,1, 65313,65338,1,32, 66560,66599,1,40, 66736,66771,1,40,
    66928,66938,1,39, 66940,66954,1,39, 66956,66962,1,39, 66964,66965,1,39,
    68736,68786,1,64, 71840,71871,1,32, 93760,93791,1,32, 125184,125217,1,34 >>

\* the cased characters that are not case-ignorable, and the case-ignorable
\* characters, as ranges first, last
CasedRanges == <<
    65,90, 97,122, 170,170, 181,181, 186,186, 192,214,
    216,246, 248,442, 444,447, 452,659, 661,687, 880,883,
    886,887, 891,893, 895,895, 902,902, 904,906, 908,908,
    910,929, 931,1013, 1015,1153, 1162,1327, 1329,1366, 1376,1416,
    4256,4293, 4295,4295, 4301,4301, 4304,4346, 4349,4351, 5024,5109,
    5112,5117, 7296,7304, 7312,7354, 7357,7359, 7424,7467, 7531,7543,
    7545,7578, 7680,7957, 7960,7965, 7968,8005, 8008,8013, 8016,8023,
    8025,8025, 8027,8027, 8029,8029, 8031,8061, 8064,8116, 8118,8124,
    8126,8126, 8130,8132, 8134,8140, 8144,8147, 8150,8155, 8160,8172,
    8178,8180, 8182,8188, 8450,8450, 8455,8455, 8458,8467, 8469,8469,
    8473,8477, 8484,8484, 8486,8486, 8488,8488, 8490,8493, 8495,8500,
    8505,8505, 8508,8511, 8517,8521, 8526,8526, 8544,8575, 8579,8580,
    9398,9449, 11264,11387, 11390,11492, 11499,11502, 11506,11507, 11520,11557,
    11559,11559, 11565,11565, 42560,42605, 42624,42651, 42786,42863, 42865,42887,
    42891,42894, 42896,42954, 42960,42961, 42963,42963, 42965,42969, 42997,42998,
    43002,43002, 43824,43866, 43872,43880, 43888,43967, 64256,64262, 64275,64279,
    65313,65338, 65345,65370, 66560,66639, 66736,66771, 66776,66811, 66928,66938,
    66940,66954, 66956,66962, 66964,66965, 66967,66977, 66979,66993, 66995,67001,
    67003,67004, 68736,68786, 68800,68850, 71840,71903, 93760,93823, 119808,119892,
    119894,119964, 119966,119967, 119970,119970, 119973,119974, 119977,119980, 119982,119993,
    119995,119995, 119997,120003, 120005,120069, 120071,120074, 120077,120084, 120086,120092,
    120094,120121, 120123,120126, 120128,120132, 120134,120134, 120138,120144, 120146,120485,
    120488,120512, 120514,120538, 120540,120570, 120572,120596, 120598,120628, 120630,120654,
    120656,120686, 120688,120712, 120714,120744, 120746,120770, 120772,120779, 122624,122633,
    122635,122654, 125184,125251, 127280,127305, 127312,127337, 127344,127369 >>

CaseIgnorableRanges == <<
    39,39, 46,46, 58,58, 94,94, 96,96, 168,168,
    173,173, 175,175, 180,180, 183,184, 688,879, 884,885,
    890,890, 900,901, 903,903, 1155,1161, 1369,1369, 1375,1375,
    1425,1469, 1471,1471, 1473,1474, 1476,1477, 1479,1479, 1524,1524,
    1536,1541, 1552,1562, 1564,1564, 1600,1600, 1611,1631, 1648,1648,
    1750,1757, 1759,1768, 1770,1773, 1807,1807, 1809,1809, 1840,1866,
    1958,1968, 2027,2037, 2042,2042, 2045,2045, 2070,2093, 2137,2139,
    2184,2184, 2192,2193, 2200,2207, 2249,2306, 2362,2362, 2364,2364,
    2369,2376, 2381,2381, 2385,2391, 2402,2403, 2417,2417, 2433,2433,
    2492,2492, 2497,2500, 2509,2509, 2530,2531, 2558,2558, 2561,2562,
    2620,2620, 2625,2626, 2631,2632, 2635,2637, 2641,2641, 2672,2673,
    2677,2677, 2689,2690, 2748,2748, 2753,2757, 2759,2760, 2765,2765,
    2786,2787, 2810,2815, 2817,2817, 2876,2876, 2879,2879, 2881,2884,
    2893,2893, 2901,2902, 2914,2915, 2946,2946, 3008,3008, 3021,3021,
    3072,3072, 3076,3076, 3132,3132, 3134,3136, 3142,3144, 3146,3149,
    3157,3158, 3170,3171, 3201,3201, 3260,3260, 3263,3263, 3270,3270,
    3276,3277, 3298,3299, 3328,3329, 3387,3388, 3393,3396, 3405,3405,
    3426,3427, 3457,3457, 3530,3530, 3538,3540, 3542,3542, 3633,3633,
    3636,3642, 3654,3662, 3761,3761, 3764,3772, 3782,3782, 3784,3789,
    3864,3865, 3893,3893, 3895,3895, 3897,3897, 3953,3966, 3968,3972,
    3974,3975, 3981,3991, 3993,4028, 4038,4038, 4141,4144, 4146,4151,
    4153,4154, 4157,4158, 4184,4185, 4190,4192, 4209,4212, 4226,4226,
    4229,4230, 4237,4237, 4253,4253, 4348,4348, 4957,4959, 5906,5908,
    5938,5939, 5970,5971, 6002,6003, 6068,6069, 6071,6077, 6086,6086,
    6089,6099, 6103,6103, 6109,6109, 6155,6159, 6211,6211, 6277,6278,
    6313,6313, 6432,6434, 6439,6440, 6450,6450, 6457,6459, 6679,6680,
    6683,6683, 6742,6742, 6744,6750, 6752,6752, 6754,6754, 6757,6764,
    6771,6780, 6783,6783, 6823,6823, 6832,6862, 6912,6915, 6964,6964,
    6966,6970, 6972,6972, 6978,6978, 7019,7027, 7040,7041, 7074,7077,
    7080,7081, 7083,7085, 7142,7142, 7144,7145, 7149,7149, 7151,7153,
    7212,7219, 7222,7223, 7288,7293, 7376,7378, 7380,7392, 7394,7400,
    7405,7405, 7412,7412, 7416,7417, 7468,7530, 7544,7544, 7579,7679,
    8125,8125, 8127,8129, 8141,8143, 8157,8159, 8173,8175, 8189,8190,
    8203,8207, 8216,8217, 8228,8228, 8231,8231, 8234,8238, 8288,8292,
    8294,8303, 8305,8305, 8319,8319, 8336,8348, 8400,8432, 11388,11389,
    11503,11505, 11631,11631, 11647,11647, 11744,11775, 11823,11823, 12293,12293,
    12330,12333, 12337,12341, 12347,12347, 12441,12446, 12540,12542, 40981,40981,
    42232,42237, 42508,42508, 42607,42610, 42612,42621, 42623,42623, 42652,42655,
    42736,42737, 42752,42785, 42864,42864, 42888,42890, 42994,42996, 43000,43001,
    43010,43010, 43014,43014, 43019,43019, 43045,43046, 43052,43052, 43204,43205,
    43232,43249, 43263,43263, 43302,43309, 43335,43345, 43392,43394, 43443,43443,
    43446,43449, 43452,43453, 43471,43471, 43493,43494, 43561,43566, 43569,43570,
    43573,43574, 43587,43587, 43596,43596, 43632,43632, 43644,43644, 43696,43696,
    43698,43700, 43703,43704, 43710,43711, 43713,43713, 43741,43741, 43756,43757,
    43763,43764, 43766,43766, 43867,43871, 43881,43883, 44005,44005, 44008,44008,
    44013,44013, 64286,64286, 64434,64450, 65024,65039, 65043,65043, 65056,65071,
    65106,65106, 65109,65109, 65279,65279, 65287,65287, 65294,65294, 65306,65306,
    65342,65342, 65344,65344, 65392,65392, 65438,65439, 65507,65507, 65529,65531,
    66045,66045, 66272,66272, 66422,66426, 67456,67461, 67463,67504, 67506,67514,
    68097,68099, 68101,68102, 68108,68111, 68152,68154, 68159,68159, 68325,68326,
    68900,68903, 69291,69292, 69446,69456, 69506,69509, 69633,69633, 69688,69702,
    69744,69744, 69747,69748, 69759,69761, 69811,69814, 69817,69818, 69821,69821,
    69826,69826, 69837,69837, 69888,69890, 69927,69931, 69933,69940, 70003,70003,
    70016,70017, 70070,70078, 70089,70092, 70095,70095, 70191,70193, 70196,70196,
    70198,70199, 70206,70206, 70367,70367, 70371,70378, 70400,70401, 70459,70460,
    70464,70464, 70502,70508, 70512,70516, 70712,70719, 70722,70724, 70726,70726,
    70750,70750, 70835,70840, 70842,70842, 70847,70848, 70850,70851, 71090,71093,
    71100,71101, 71103,71104, 71132,71133, 71219,71226, 71229,71229, 71231,71232,
    71339,71339, 71341,71341, 71344,71349, 71351,71351, 71453,71455, 71458,71461,
    71463,71467, 71727,71735, 71737,71738, 71995,71996, 71998,71998, 72003,72003,
    72148,72151, 72154,72155, 72160,72160, 72193,72202, 72243,72248, 72251,72254,
    72263,72263, 72273,72278, 72281,72283, 72330,72342, 72344,72345, 72752,72758,
    72760,72765, 72767,72767, 72850,72871, 72874,72880, 72882,72883, 72885,72886,
    73009,73014, 73018,73018, 73020,73021, 73023,73029, 73031,73031, 73104,73105,
    73109,73109, 73111,73111, 73459,73460, 78896,78904, 92912,92916, 92976,92982,
    92992,92995, 94031,94031, 94095,94111, 94176,94177, 94179,94180, 110576,110579,
    110581,110587, 110589,110590, 113821,113822, 113824,113827, 118528,118573, 118576,118598,
    119143,119145, 119155,119170, 119173,119179, 119210,119213, 119362,119364, 121344,121398,
    121403,121452, 121461,121461, 121476,121476, 121499,121503, 121505,121519, 122880,122886,
    122888,122904, 122907,122913, 122915,122916, 122918,122922, 123184,123197, 123566,123566,
    123628,123631, 125136,125142, 125252,125259, 127995,127999, 917505,917505, 917536,917631,
    917760,917999 >>

\* str.lower() on the character c of row i of LowerRuns (i = 0: of no row)
LowerInRun(c, i) ==
    IF i # 0 /\ (c - LowerRuns[4 * i - 3]) % LowerRuns[4 * i - 1] = 0
    THEN <<c + LowerRuns[4 * i]>>
    ELSE <<c>>

\* str.lower() on the one-character string c: a string of one character,
\* and of two for U+0130
LowerChar(c) ==
    IF c < 128 THEN (IF c \in 65..90 THEN <<c + 32>> ELSE <<c>>)
    ELSE IF c = 304 THEN <<105, 775>>
    ELSE LowerInRun(c, RowOf(LowerRuns, 4, c, 1, Len(LowerRuns) \div 4))

\* a cased character stands before position j of s, case-ignorable
\* characters aside
RECURSIVE CasedBefore(_, _)
CasedBefore(s, j) ==
    IF j < 1 THEN FALSE
    ELSE IF InRanges(CaseIgnorableRanges, s[j]) THEN CasedBefore(s, j - 1)
    ELSE InRanges(CasedRanges, s[j])

\* a cased character stands after position j of s, case-ignorable characters
\* aside
RECURSIVE CasedAfter(_, _)
CasedAfter(s, j) ==
    IF j > Len(s) THEN FALSE
    ELSE IF InRanges(CaseIgnorableRanges, s[j]) THEN CasedAfter(s, j + 1)
    ELSE InRanges(CasedRanges, s[j])

\* str.lower(): character by character, U+03A3 becoming U+03C2 at the end of
\* a word (after a cased character and not before one) and U+03C3 elsewhere
Lower(s) ==
    Concat([i \in DOMAIN s |->
               IF s[i] = 931
               THEN (IF CasedBefore(s, i - 1) /\ ~CasedAfter(s, i + 1)
                     THEN <<962>> ELSE <<963>>)
               ELSE LowerChar(s[i])])


---------------------------------------------------------------------------
(* Regular-expression matching as re.findall performs it *)

\* \b at position p (p is the index of the character that follows the
\* position; p = Len(s) + 1 is the end of the string)
Boundary(s, p) ==
    (p - 1 \in 1..Len(s) /\ IsWordChar(s[p - 1])) # (p \in 1..Len(s) /\ IsWordChar(s[p]))

\* position just after the longest run of [\w'-] characters starting at p
RECURSIVE RunEnd(_, _)
RunEnd(s, p) ==
    IF p <= Len(s) /\ IsTokenChar(s[p]) THEN RunEnd(s, p + 1) ELSE p

\* re.findall(r"\b[\w'-]+\b", s) scanning from position p: at each start the
\* greedy run is shortened until it ends at a \b; the scan resumes after a match
RECURSIVE FindAllWordsFrom(_, _)
FindAllWordsFrom(s, p) ==
    IF p > Len(s) THEN <<>>
    ELSE IF Boundary(s, p) /\ IsTokenChar(s[p])
         THEN LET ends == {e \in (p + 1)..RunEnd(s, p) : Boundary(s, e)}
                  last == CHOOSE e \in ends : \A y \in ends : y <= e
              IN  IF ends # {}
                  THEN <<SubSeq(s, p, last - 1)>> \o FindAllWordsFrom(s, last)
                  ELSE FindAllWordsFrom(s, p + 1)
         ELSE FindAllWordsFrom(s, p + 1)

FindAllWords(s) == FindAllWordsFrom(s, 1)

\* the pattern \b + re.escape(lit) + \b matches at position p; for the empty
\* lit it matches the empty string at every word boundary, the end of the
\* text included
LiteralMatchAt(text, lit, p) ==
    /\ p + Len(lit) - 1 <= Len(text)
    /\ SubSeq(text, p, p + Len(lit) - 1) = lit
    /\ Boundary(text, p)
    /\ Boundary(text, p + Len(lit))

\* len(re.findall(pattern, text)) for that pattern, scanning from position p:
\* the scan resumes where a match ends, and one place further after an empty
\* match
RECURSIVE CountLiteralFrom(_, _, _)
CountLiteralFrom(text, lit, p) ==
    IF p > Len(text) + 1 THEN 0
    ELSE IF LiteralMatchAt(text, lit, p)
         THEN 1 + CountLiteralFrom(text, lit,
                                   IF lit = <<>> THEN p + 1 ELSE p + Len(lit))
         ELSE CountLiteralFrom(text, lit, p + 1)

---------------------------------------------------------------------------
(* Floating-point numbers: IEEE 754 binary64, as Python's float computes     *)
(*                                                                          *)
(* The arithmetic is exact on natural numbers of any size and every         *)
(* operation returns the double nearest to the exact result, ties to the    *)
(* even mantissa.                                                           *)

Abs(k) == IF k < 0 THEN -k ELSE k

(* Natural numbers of any size: the sequence of their digits in base 2^15,  *)
(* least significant first, without leading zeros (0 is << >>).             *)
Base == 2^15
LimbBits == 15

RECURSIVE Pow2(_)
Pow2(k) == IF k = 0 THEN 1 ELSE 2 * Pow2(k - 1)

RECURSIVE NatToBig(_)
NatToBig(n) == IF n = 0 THEN <<>> ELSE <<n % Base>> \o NatToBig(n \div Base)

RECURSIVE BigToNat(_)
BigToNat(a) == IF a = <<>> THEN 0 ELSE a[1] + Base * BigToNat(Tail(a))

\* a digit put below the digits of a
BigCons(digit, a) == IF a = <<>> /\ digit = 0 THEN <<>> ELSE <<digit>> \o a

\* -1, 0 or 1 as a < b, a = b or a > b, for a and b of i digits
RECURSIVE BigCmpFrom(_, _, _)
BigCmpFrom(a, b, i) ==
    IF i = 0 THEN 0
    ELSE IF a[i] < b[i] THEN -1
    ELSE IF a[i] > b[i] THEN 1
    ELSE BigCmpFrom(a, b, i - 1)

BigCmp(a, b) ==
    IF Len(a) < Len(b) THEN -1
    ELSE IF Len(a) > Len(b) THEN 1
    ELSE BigCmpFrom(a, b, Len(a))

\* the lowest digit of a and the digits above it
Low(a) == IF a = <<>> THEN 0 ELSE a[1]
High(a) == IF a = <<>> THEN a ELSE Tail(a)

RECURSIVE BigAddC(_, _, _)
BigAddC(a, b, carry) ==
    IF a = <<>> /\ b = <<>> THEN NatToBig(carry)
    ELSE BigCons((Low(a) + Low(b) + carry) % Base,
                 BigAddC(High(a), High(b), (Low(a) + Low(b) + carry) \div Base))

BigAdd(a, b) == BigAddC(a, b, 0)

\* a - b - borrow for a >= b + borrow
RECURSIVE BigSubB(_, _, _)
BigSubB(a, b, borrow) ==
    IF a = <<>> THEN <<>>
    ELSE BigCons((a[1] - Low(b) - borrow) % Base,
                 BigSubB(Tail(a), High(b), IF a[1] - Low(b) - borrow < 0 THEN 1 ELSE 0))

BigSub(a, b) == BigSubB(a, b, 0)

\* a * k + carry for a digit k
RECURSIVE BigMulSmallC(_, _, _)
BigMulSmallC(a, k, carry) ==
    IF a = <<>> THEN NatToBig(carry)
    ELSE BigCons((a[1] * k + carry) % Base,
                 BigMulSmallC(Tail(a), k, (a[1] * k + carry) \div Base))

BigMulSmall(a, k) == IF k = 0 THEN <<>> ELSE BigMulSmallC(a, k, 0)

RECURSIVE BigMul(_, _)
BigMul(a, b) ==
    IF a = <<>> \/ b = <<>> THEN <<>>
    ELSE BigAdd(BigMulSmall(a, b[1]), BigCons(0, BigMul(a, Tail(b))))

\* a * Base^n
RECURSIVE BigShiftDigits(_, _)
BigShiftDigits(a, n) == IF n = 0 \/ a = <<>> THEN a ELSE BigShiftDigits(<<0>> \o a, n - 1)

\* a * 2^n
BigShl(a, n) ==
    BigShiftDigits(BigMulSmall(a, Pow2(n % LimbBits)), n \div LimbBits)

\* quotient and remainder of a by a digit k > 0
RECURSIVE BigDivSmall(_, _)
BigDivSmall(a, k) ==
    IF a = <<>> THEN [q |-> <<>>, r |-> 0]
    ELSE LET high == BigDivSmall(Tail(a), k)
         IN  [q |-> BigCons((high.r * Base + a[1]) \div k, high.q),
              r |-> (high.r * Base + a[1]) % k]

\* floor(a / 2^n)
BigShr(a, n) ==
    IF n \div LimbBits >= Len(a) THEN <<>>
    ELSE BigDivSmall(SubSeq(a, n \div LimbBits + 1, Len(a)), Pow2(n % LimbBits)).q

RECURSIVE NatBitLen(_)
NatBitLen(n) == IF n = 0 THEN 0 ELSE 1 + NatBitLen(n \div 2)

BigBitLen(a) ==
    IF a = <<>> THEN 0 ELSE LimbBits * (Len(a) - 1) + NatBitLen(a[Len(a)])

\* the largest digit q with q * b <= cur, from an estimate that is not below it
RECURSIVE BigQuotDigit(_, _, _)
BigQuotDigit(cur, b, qhat) ==
    IF BigCmp(BigMulSmall(b, qhat), cur) > 0 THEN BigQuotDigit(cur, b, qhat - 1)
    ELSE qhat

\* the estimate of the digit cur \div b from the two top digits of cur and
\* the top digit of b, b having t digits
QuotEstimate(cur, b, t) ==
    IF Len(cur) < t THEN 0
    ELSE IF Len(cur) = t THEN cur[t] \div b[t]
    ELSE IF (cur[t + 1] * Base + cur[t]) \div b[t] > Base - 1 THEN Base - 1
    ELSE (cur[t + 1] * Base + cur[t]) \div b[t]

\* one step of the long division: the digit q below the quotient digits hq
BigDivDigit(cur, b, hq, q) ==
    [q |-> BigCons(q, hq), r |-> BigSub(cur, BigMulSmall(b, q))]

BigDivStep(cur, b, hq) ==
    BigDivDigit(cur, b, hq, BigQuotDigit(cur, b, QuotEstimate(cur, b, Len(b))))

\* quotient and remainder of a by b, the top digit of b being at least Base / 2
RECURSIVE BigDivNormal(_, _)
BigDivNormal(a, b) ==
    IF a = <<>> THEN [q |-> <<>>, r |-> <<>>]
    ELSE LET high == BigDivNormal(Tail(a), b)
         IN  BigDivStep(BigCons(a[1], high.r), b, high.q)

\* quotient and remainder of a by b > 0 (the remainder is that of the
\* division of both by a common power of 2)
BigDiv(a, b) ==
    BigDivNormal(BigShl(a, LimbBits - NatBitLen(b[Len(b)])),
                 BigShl(b, LimbBits - NatBitLen(b[Len(b)])))

\* the integer nearest to a / 2^k for k > 0, ties to the even one: q2 is
\* floor(a / 2^(k-1)), whose lowest bit is the first bit dropped
BigRoundHalfEven(a, k, q2) ==
    BigShr(IF q2 # <<>> /\ q2[1] % 2 = 1 /\ (q2[1] % 4 = 3 \/ BigShl(q2, k - 1) # a)
           THEN BigAdd(q2, <<1>>) ELSE q2, 1)

BigRoundShr(a, k) == BigRoundHalfEven(a, k, BigShr(a, k - 1))

(* A double is [neg, m, e]: the value is m * 2^e, negated when neg; m is a  *)
(* natural number of exactly 53 bits and 0.0 is [FALSE, << >>, 0].          *)
(* Exponents are not bounded: no value of the program comes near the limits *)
(* of the format.                                                           *)
MantBits == 53
Zero == [neg |-> FALSE, m |-> <<>>, e |-> 0]

\* m * 2^e for m of 53 bits, or of 54 bits when the rounding has carried
FloatNorm(neg, m, e) ==
    IF BigBitLen(m) > MantBits THEN [neg |-> neg, m |-> BigShr(m, 1), e |-> e + 1]
    ELSE [neg |-> neg, m |-> m, e |-> e]

\* the double nearest to n * 2^e for n > 0 of len bits
FloatRoundBits(neg, n, e, len) ==
    IF len <= MantBits
    THEN [neg |-> neg, m |-> BigShl(n, MantBits - len), e |-> e - (MantBits - len)]
    ELSE FloatNorm(neg, BigRoundShr(n, len - MantBits), e + (len - MantBits))

\* the double nearest to n * 2^e, ties to the even mantissa
FloatRound(neg, n, e) ==
    IF n = <<>> THEN Zero ELSE FloatRoundBits(neg, n, e, BigBitLen(n))

\* the double nearest to a quotient: d.q is the quotient in units of 2^e and
\* d.r the remainder, which only counts for being zero or not
FloatRoundQuot(neg, d, e) ==
    FloatRound(neg, BigAdd(BigShl(d.q, 1), IF d.r = <<>> THEN <<>> ELSE <<1>>), e - 1)

\* the number of bits by which a dividend is scaled before the division
QuotBits == 60

\* the double nearest to n / d for integers n and d > 0: float(n) for d = 1,
\* and the value of a decimal literal or of a parsed JSON number
FloatOf(n, d) ==
    IF n = 0 THEN Zero
    ELSE FloatRoundQuot(n < 0,
                        BigDiv(BigShl(NatToBig(Abs(n)), QuotBits + NatBitLen(d)),
                               NatToBig(d)),
                        -(QuotBits + NatBitLen(d)))

\* float(n) for an integer n
FloatInt(n) == FloatRound(n < 0, NatToBig(Abs(n)), 0)

\* -1, 0 or 1 as |x| < |y|, |x| = |y| or |x| > |y|
FloatCmpAbs(x, y) ==
    IF x.m = <<>> \/ y.m = <<>>
    THEN (IF x.m = y.m THEN 0 ELSE IF x.m = <<>> THEN -1 ELSE 1)
    ELSE IF x.e < y.e THEN -1
    ELSE IF x.e > y.e THEN 1
    ELSE BigCmp(x.m, y.m)

\* -1, 0 or 1 as x < y, x == y or x > y
FloatCmp(x, y) ==
    IF x.neg # y.neg THEN (IF x.neg THEN -1 ELSE 1)
    ELSE FloatCmpAbs(IF x.neg THEN y ELSE x, IF x.neg THEN x ELSE y)

FloatLe(x, y) == FloatCmp(x, y) <= 0
FloatMax(x, y) == IF FloatCmp(x, y) < 0 THEN y ELSE x

\* the sum of the magnitudes nb and ns, in units of 2^e, of numbers of signs
\* bneg and sneg, c being BigCmp(nb, ns)
FloatAddMagnitudes(bneg, sneg, nb, ns, e, c) ==
    FloatRound(IF bneg = sneg \/ c >= 0 THEN bneg ELSE sneg,
               IF bneg = sneg THEN BigAdd(nb, ns)
               ELSE IF c >= 0 THEN BigSub(nb, ns) ELSE BigSub(ns, nb),
               e)

FloatAddAligned(bneg, sneg, nb, ns, e) ==
    FloatAddMagnitudes(bneg, sneg, nb, ns, e, BigCmp(nb, ns))

\* big + sml for big.e >= sml.e, both nonzero; a sml more than QuotBits
\* binary places below big counts as one unit below the rounding position
FloatAddOrdered(big, sml, far) ==
    FloatAddAligned(big.neg, sml.neg,
                    BigShl(big.m, IF far THEN 3 ELSE big.e - sml.e),
                    IF far THEN <<1>> ELSE sml.m,
                    IF far THEN big.e - 3 ELSE sml.e)

\* x + y
FloatAdd(x, y) ==
    IF x.m = <<>> THEN y
    ELSE IF y.m = <<>> THEN x
    ELSE FloatAddOrdered(IF x.e >= y.e THEN x ELSE y, IF x.e >= y.e THEN y ELSE x,
                         Abs(x.e - y.e) > QuotBits)

\* x - y
FloatSub(x, y) ==
    FloatAdd(x, IF y.m = <<>> THEN y ELSE [y EXCEPT !.neg = ~y.neg])

\* x * y
FloatMul(x, y) == FloatRound(x.neg # y.neg, BigMul(x.m, y.m), x.e + y.e)

\* x / y for y # 0
FloatDiv(x, y) ==
    IF x.m = <<>> THEN Zero
    ELSE FloatRoundQuot(x.neg # y.neg, BigDiv(BigShl(x.m, QuotBits), y.m),
                        x.e - QuotBits - y.e)

\* v or -v
Signed(neg, v) == IF neg THEN -v ELSE v

\* round(x, ndigits) for scale = 10^ndigits, as the count of 10^-ndigits
\* units of the result: the integer nearest to x * scale, ties to the even one
PyRound(x, scale) ==
    IF x.m = <<>> THEN 0
    ELSE IF x.e >= 0 THEN Signed(x.neg, BigToNat(BigShl(BigMulSmall(x.m, scale), x.e)))
    ELSE Signed(x.neg, BigToNat(BigRoundShr(BigMulSmall(x.m, scale), -x.e)))

---------------------------------------------------------------------------
(* metrics.py *)

\* ["um", "uh", "like", "you know"]
DefaultFillers == Strs(<< <<"u","m">>, <<"u","h">>, <<"l","i","k","e">>,
                          <<"y","o","u"," ","k","n","o","w">> >>)

\* count_fillers: the loop over filler_list, from index i on
RECURSIVE CountFillersLoop(_, _, _)
CountFillersLoop(text, fillers, i) ==
    IF i > Len(fillers) THEN 0
    ELSE CountLiteralFrom(text, Lower(fillers[i]), 1)
            + CountFillersLoop(text, fillers, i + 1)

count_fillers_substring(t, fillers) ==
    LET text == Lower(t)
        Occ(lit) == {p \in 1..Len(text) :
                        /\ p + Len(lit) - 1 <= Len(text)
                        /\ SubSeq(text, p, p + Len(lit) - 1) = lit}
        RECURSIVE Sum(_)
        Sum(i) == IF i > Len(fillers) THEN 0
                  ELSE Cardinality(Occ(Lower(fillers[i]))) + Sum(i + 1)
    IN  IF t = <<>> THEN 0 ELSE Sum(1)

count_fillers(t, fillers) ==
    IF t = <<>> THEN 0 ELSE CountFillersLoop(Lower(t), fillers, 1)

\* str.split(): the maximal runs of non-space characters, from position p on
RECURSIVE SplitFrom(_, _, _)
SplitFrom(s, p, cur) ==
    IF p > Len(s) THEN (IF cur = <<>> THEN <<>> ELSE <<cur>>)
    ELSE IF IsSpace(s[p])
         THEN (IF cur = <<>> THEN <<>> ELSE <<cur>>) \o SplitFrom(s, p + 1, <<>>)
         ELSE SplitFrom(s, p + 1, Append(cur, s[p]))

Split(s) == SplitFrom(s, 1, <<>>)

\* compute_highlights: the loop over enumerate(words), from index i (1-based) on
RECURSIVE HighlightsLoop(_, _, _)
HighlightsLoop(words, lowered_fillers, i) ==
    IF i > Len(words) THEN <<>>
    ELSE (IF Lower(words[i]) \in lowered_fillers
          THEN <<[wordIndex |-> i - 1, type |-> "filler"]>>
          ELSE <<>>)
         \o HighlightsLoop(words, lowered_fillers, i + 1)

compute_highlights_contains(t, fillers) ==
    LET words == Split(t)
        lowered == {Lower(fillers[i]) : i \in DOMAIN fillers}
        Has(w) == \E f \in lowered : \E p \in 1..Len(w) :
                     p + Len(f) - 1 <= Len(w) /\ SubSeq(Lower(w), p, p + Len(f) - 1) = f
        RECURSIVE Loop(_)
        Loop(i) == IF i > Len(words) THEN <<>>
                   ELSE (IF Has(words[i])
                         THEN <<[wordIndex |-> i - 1, type |-> "filler"]>>
                         ELSE <<>>) \o Loop(i + 1)
    IN  IF t = <<>> THEN <<>> ELSE Loop(1)

compute_highlights(t, fillers) ==
    IF t = <<>> THEN <<>>
    ELSE HighlightsLoop(Split(t), {Lower(fillers[i]) : i \in DOMAIN fillers}, 1)


\* max(float(duration_seconds), 0.1), duration_seconds being d hundredths
SafeDuration(d) == FloatMax(FloatOf(d, 100), FloatOf(1, 10))

\* (count / safe_duration) * 60.0: the quotient and the product are each
\* rounded to a double (7 / 2.4 * 60.0 is 175.00000000000003 and
\* 9 / 4.32 * 60.0 is 124.99999999999999)
PerMinute(count, safe_duration) ==
    FloatMul(FloatDiv(FloatInt(count), safe_duration), FloatInt(60))

WpmOfCount_nofactor(word_count, d) ==
    IF word_count = 0 THEN Zero
    ELSE FloatDiv(FloatInt(word_count), SafeDuration(d))

\* compute_wpm, from "if word_count == 0" on
WpmOfCount(word_count, d) ==
    IF word_count = 0 THEN Zero
    ELSE PerMinute(word_count, SafeDuration(d))

\* compute_wpm: (word_count / safe_duration) * 60.0
compute_wpm(t, d) ==
    IF t = <<>> THEN Zero ELSE WpmOfCount(Len(FindAllWords(t)), d)

FillersPerMin_noguard(total_fillers, d) ==
    PerMinute(total_fillers, SafeDuration(d))

\* compute_metrics: fillers_per_min before rounding
FillersPerMin(total_fillers, d) ==
    IF d <= 0 THEN Zero
    ELSE PerMinute(total_fillers, SafeDuration(d))

\* compute_metrics: the dictionary returned (fillersPerMin is
\* round(fillers_per_min, 2), in hundredths)
MetricsOf(total_words, wpm, total_fillers, d) ==
    [wpm           |-> wpm,
     totalWords    |-> total_words,
     totalFillers  |-> total_fillers,
     fillersPerMin |-> PyRound(FillersPerMin(total_fillers, d), 100)]

\* compute_metrics
compute_metrics(t, d) ==
    MetricsOf(IF t # <<>> THEN Len(FindAllWords(t)) ELSE 0, compute_wpm(t, d),
              count_fillers(t, DefaultFillers), d)

---------------------------------------------------------------------------
(* coach_engine.py *)

(* Python values of a persona.  A persona is None or a dict; its "targets"  *)
(* entry is missing, None, a list or a dict; the "wpm" entry of the targets *)
(* is missing, None, an int (vals = <<the int>>), a list of ints (vals) or  *)
(* a string of non-numeric characters (vals has its length); the            *)
(* "maxFillersPerMin" entry is missing, None, a number (val) or a           *)
(* non-numeric string.                                                      *)
WpmTarget(kind, vals) == [kind |-> kind, vals |-> vals]
MaxTarget(kind, val) == [kind |-> kind, val |-> val]
Targets(kind, wpm, maxf) == [kind |-> kind, wpm |-> wpm, maxFillersPerMin |-> maxf]
Persona(kind, targets) == [kind |-> kind, targets |-> targets]

NoTargets == Targets("missing", WpmTarget("missing", <<>>), MaxTarget("missing", 0))
NonePersona == Persona("none", NoTargets)

Returned(v) == [status |-> "ok", value |-> v, error |-> ""]
Raised(e) == [status |-> "error", value |-> Zero, error |-> e]

ScorePaceDiff_strict(diff) ==
    IF FloatCmp(diff, FloatOf(15, 100)) < 0 THEN FloatOf(8, 10)
    ELSE IF FloatCmp(diff, FloatOf(5, 10)) < 0 THEN FloatOf(5, 10)
    ELSE FloatOf(2, 10)

\* _score_pace, from "if diff <= 0.15" on
ScorePaceDiff(diff) ==
    IF FloatLe(diff, FloatOf(15, 100)) THEN FloatOf(8, 10)
    ELSE IF FloatLe(diff, FloatOf(5, 10)) THEN FloatOf(5, 10)
    ELSE FloatOf(2, 10)

\* _score_pace, from "if low <= wpm <= high" on: range_width is
\* max(high - low, 1.0) and diff is (low - wpm) / range_width or
\* (wpm - high) / range_width
ScorePaceBounds(wpm, low, high) ==
    IF FloatLe(low, wpm) /\ FloatLe(wpm, high) THEN FloatOf(95, 100)
    ELSE ScorePaceDiff(FloatDiv(IF FloatCmp(wpm, low) < 0 THEN FloatSub(low, wpm)
                                ELSE FloatSub(wpm, high),
                                FloatMax(FloatSub(high, low), FloatInt(1))))

\* _score_pace: the value returned or the exception raised; "not
\* target_range" holds for None, 0, [] and ""
_score_pace(wpm, target_range) ==
    IF \/ FloatLe(wpm, Zero)
       \/ target_range.kind = "none"
       \/ target_range.kind = "int" /\ target_range.vals[1] = 0
       \/ target_range.kind \in {"list", "str"} /\ target_range.vals = <<>>
    THEN Returned(FloatOf(2, 10))
    ELSE IF target_range.kind = "int" THEN Raised("TypeError")
    ELSE IF Len(target_range.vals) # 2 THEN Returned(FloatOf(2, 10))
    ELSE IF target_range.kind = "str" THEN Raised("ValueError")
    ELSE Returned(ScorePaceBounds(wpm, FloatInt(target_range.vals[1]),
                                  FloatInt(target_range.vals[2])))

ScoreFillerRatio_steep(ratio) ==
    IF FloatLe(FloatInt(3), ratio) THEN FloatOf(2, 10)
    ELSE FloatMax(FloatOf(2, 10),
                  FloatSub(FloatOf(98, 100),
                           FloatMul(FloatSub(ratio, FloatInt(1)),
                                    FloatSub(FloatOf(98, 100), FloatOf(2, 10)))))

ScoreFillerRatio_nofloor(ratio) ==
    FloatSub(FloatOf(98, 100),
             FloatMul(FloatSub(ratio, FloatInt(1)),
                      FloatDiv(FloatSub(FloatOf(98, 100), FloatOf(2, 10)),
                               FloatInt(2))))

\* _score_filler_control, from "if ratio >= 3.0" on: score is
\* 0.98 - (ratio - 1.0) * ((0.98 - 0.2) / 2.0)
ScoreFillerRatio(ratio) ==
    IF FloatLe(FloatInt(3), ratio) THEN FloatOf(2, 10)
    ELSE FloatMax(FloatOf(2, 10),
                  FloatSub(FloatOf(98, 100),
                           FloatMul(FloatSub(ratio, FloatInt(1)),
                                    FloatDiv(FloatSub(FloatOf(98, 100), FloatOf(2, 10)),
                                             FloatInt(2)))))

\* _score_filler_control, max_allowed being an integer
_score_filler_control(fillers_per_min, max_allowed) ==
    IF max_allowed <= 0 THEN FloatOf(5, 10)
    ELSE IF FloatLe(fillers_per_min, FloatInt(max_allowed)) THEN FloatOf(98, 100)
    ELSE ScoreFillerRatio(FloatDiv(fillers_per_min, FloatInt(max_allowed)))

\* score_against_persona, lines 131-132: the result for the rounded scores,
\* in thousandths; overall is sum(dims.values()) / len(dims), and sum() adds
\* the values in the order of the dictionary, starting from 0
DimsResult(pace, clarity, confidence, fillerControl) ==
    [status |-> "ok", error |-> "",
     pace |-> pace, clarity |-> clarity, confidence |-> confidence,
     fillerControl |-> fillerControl,
     overall |->
        PyRound(FloatDiv(FloatAdd(FloatAdd(FloatAdd(FloatAdd(Zero,
                                                             FloatOf(pace, 1000)),
                                                    FloatOf(clarity, 1000)),
                                           FloatOf(confidence, 1000)),
                                  FloatOf(fillerControl, 1000)),
                         FloatInt(4)),
                1000)]

ScoreDims_confidence(pace_score, filler_score) ==
    DimsResult(PyRound(pace_score, 1000), PyRound(FloatOf(9, 10), 1000),
               PyRound(pace_score, 1000), PyRound(filler_score, 1000))

\* score_against_persona, lines 121-132: the rounded scores, in thousandths
ScoreDims(pace_score, filler_score) ==
    DimsResult(PyRound(pace_score, 1000), PyRound(FloatOf(9, 10), 1000),
               PyRound(filler_score, 1000), PyRound(filler_score, 1000))

ScoreError(e) ==
    [status |-> "error", error |-> e, pace |-> 0, clarity |-> 0,
     confidence |-> 0, fillerControl |-> 0, overall |-> 0]

\* score_against_persona, from "pace_score = ..." on
ScoreWithPace(pace, fillers_per_min, max_fillers) ==
    IF pace.status = "error" THEN ScoreError(pace.error)
    ELSE ScoreDims(pace.value, _score_filler_control(fillers_per_min, max_fillers))

\* score_against_persona: the result returned, or the exception raised
score_against_persona(m, p) ==
    LET targets == IF p.kind = "none" THEN NoTargets ELSE p.targets
        target_wpm == IF targets.wpm.kind = "missing"
                      THEN WpmTarget("list", <<0, 0>>) ELSE targets.wpm
        maxf == targets.maxFillersPerMin
    IN  IF targets.kind \in {"none", "list"} THEN ScoreError("AttributeError")
        ELSE IF maxf.kind = "none" THEN ScoreError("TypeError")
        ELSE IF maxf.kind = "str" THEN ScoreError("ValueError")
        ELSE ScoreWithPace(_score_pace(m.wpm, target_wpm), m.fillersPerMin,
                           IF maxf.kind = "missing" THEN 0 ELSE maxf.val)

---------------------------------------------------------------------------
(* Inputs *)

MaxPieces == 3

RECURSIVE Join(_, _)
Join(ws, sep) ==
    IF ws = <<>> THEN <<>>
    ELSE IF Len(ws) = 1 THEN ws[1]
    ELSE ws[1] \o sep \o Join(Tail(ws), sep)

\* "hi um my name is pavit and like I want to speak better" (main.py:239)
EndToEndTranscript ==
    Str(Join(<< <<"h","i">>, <<"u","m">>, <<"m","y">>, <<"n","a","m","e">>,
            <<"i","s">>, <<"p","a","v","i","t">>, <<"a","n","d">>,
            <<"l","i","k","e">>, <<"I">>, <<"w","a","n","t">>, <<"t","o">>,
            <<"s","p","e","a","k">>, <<"b","e","t","t","e","r">> >>, <<" ">>))

\* "I unlike this"
UnlikeTranscript ==
    Str(Join(<< <<"I">>, <<"u","n","l","i","k","e">>, <<"t","h","i","s">> >>, <<" ">>))

\* "um, uh, like, you know"
FourFillersTranscript ==
    Str(Join(<< <<"u","m">>, <<"u","h">>, <<"l","i","k","e">>,
            <<"y","o","u"," ","k","n","o","w">> >>, <<",", " ">>))

\* "Um\tuh\n you  know, it's like-minded"
MixedTranscript ==
    Str(<<"U","m">>) \o <<9>> \o Str(<<"u","h">>) \o <<10>>
        \o Str(<<" ","y","o","u"," "," ","k","n","o","w",","," ","i","t","'","s">>)
        \o Str(<<" ","l","i","k","e","-","m","i","n","d","e","d">>)

\* "so um we can do it now": 7 words
SevenWordsTranscript ==
    Str(Join(<< <<"s","o">>, <<"u","m">>, <<"w","e">>, <<"c","a","n">>, <<"d","o">>,
            <<"i","t">>, <<"n","o","w">> >>, <<" ">>))

\* the transcripts of the samples
SampleTranscripts ==
    { EndToEndTranscript, SevenWordsTranscript, UnlikeTranscript,
      FourFillersTranscript, MixedTranscript,
      \* "well uh I think we can like start now": 9 words
      Str(Join(<< <<"w","e","l","l">>, <<"u","h">>, <<"I">>, <<"t","h","i","n","k">>,
          <<"w","e">>, <<"c","a","n">>, <<"l","i","k","e">>,
          <<"s","t","a","r","t">>, <<"n","o","w">> >>, <<" ">>)),
      \* "so um we can do it now so um we can do it now": 14 words
      SevenWordsTranscript \o Str(<<" ">>) \o SevenWordsTranscript,
      \* "um"
      Str(<<"u","m">>),
      \* "um um um": a phrase "um um" stands at two places that overlap
      Str(<<"u","m"," ","u","m"," ","u","m">>),
      \* "na\u00e9ve um": one word with a letter beyond ASCII, then a filler
      Str(<<"n","a">>) \o <<233>> \o Str(<<"v","e"," ","u","m">>),
      \* "\u00e9um UM \u00b2uh": fillers that follow a word character beyond ASCII
      <<233>> \o Str(<<"u","m"," ","U","M"," ">>) \o <<178>> \o Str(<<"u","h">>),
      \* "um\x0blike\xa0uh\x1cUM": words separated by U+000B, U+00A0 and U+001C
      Str(<<"u","m">>) \o <<11>> \o Str(<<"l","i","k","e">>) \o <<160>>
          \o Str(<<"u","h">>) \o <<28>> \o Str(<<"U","M">>),
      \* "\u00c9T\u00c9 \u00e9t\u00e9, \u00c9t\u00e9": cased letters beyond ASCII
      <<201>> \o Str(<<"T">>) \o <<201>> \o Str(<<" ">>) \o <<233>> \o Str(<<"t">>)
          \o <<233>> \o Str(<<","," ">>) \o <<201>> \o Str(<<"t">>) \o <<233>>,
      \* "\u03b1\u03b2\u03b3 \u03b4 um": two words of Greek letters, then a filler
      <<945, 946, 947>> \o Str(<<" ">>) \o <<948>> \o Str(<<" ","u","m">>),
      \* "um\u1680uh\u2003like\u3000UM": words separated by U+1680, U+2003, U+3000
      Str(<<"u","m">>) \o <<5760>> \o Str(<<"u","h">>) \o <<8195>>
          \o Str(<<"l","i","k","e">>) \o <<12288>> \o Str(<<"U","M">>),
      \* "\u039f\u0394\u039f\u03a3 \u03bf\u03b4\u03bf\u03c2 \u03a3\u039f\u03a3 \u0130 um":
      \* capital sigma at the end of a word and elsewhere, and U+0130, whose
      \* lower() is two characters
      <<927, 916, 927, 931>> \o Str(<<" ">>) \o <<959, 948, 959, 962>> \o Str(<<" ">>)
          \o <<931, 927, 931>> \o Str(<<" ">>) \o <<304>> \o Str(<<" ","u","m">>) }

\* the samples and the concatenations of up to MaxPieces pieces
Transcripts ==
    SampleTranscripts \cup
    UNION { {Concat(ps) : ps \in [1..k -> { Str(p) : p \in
                { <<"u","m">>, <<"U","h">>, <<"l","i","k","e">>, <<"u","n">>,
                  <<"y","o","u">>, <<"k","n","o","w">>, <<" ">>, <<",">>,
                  <<"-">> } }]} : k \in 0..MaxPieces }

NoMetrics == [wpm |-> Zero, fillersPerMin |-> Zero]
NoResult  == [status |-> "none"]

\* persona_profiles.PERSONAS, in insertion order
PersonaOrder == <<"ted", "leader", "teacher">>

PersonaCatalog ==
    [id \in {PersonaOrder[i] : i \in DOMAIN PersonaOrder} |->
        IF id = "ted"
        THEN Targets("dict", WpmTarget("list", <<140, 170>>), MaxTarget("num", 3))
        ELSE IF id = "leader"
        THEN Targets("dict", WpmTarget("list", <<130, 160>>), MaxTarget("num", 2))
        ELSE Targets("dict", WpmTarget("list", <<110, 140>>), MaxTarget("num", 2))]

\* the module-level state of the service when the process has started
ServiceAtStart ==
    /\ PERSONAS = PersonaCatalog
    /\ attempt_cache = <<>>
    /\ session_log = <<>>
    /\ inflight = EmptyBag
    /\ calls = {}

---------------------------------------------------------------------------
(* Calls of the text functions: count_fillers and compute_highlights *)

InitText ==
    /\ pc = "ready"
    /\ op = ""
    /\ transcript \in Transcripts
    /\ duration = 0
    \* filler_list: the default (None), ["like"], ["\u00c9t\u00e9", "um"],
    \* ["UM", "you know"], ["know", "you know"],
    \* ["\u039f\u0394\u039f\u03a3", "\u0130"], ["um um", ""] and ["um,", "", "Um"]
    /\ filler_list \in
          { DefaultFillers,
            Strs(<< <<"l","i","k","e">> >>),
            << <<201>> \o Str(<<"t">>) \o <<233>>, Str(<<"u","m">>) >>,
            Strs(<< <<"U","M">>, <<"y","o","u"," ","k","n","o","w">> >>),
            Strs(<< <<"k","n","o","w">>, <<"y","o","u"," ","k","n","o","w">> >>),
            << <<927, 916, 927, 931>>, <<304>> >>,
            Strs(<< <<"u","m"," ","u","m">>, <<>> >>),
            Strs(<< <<"u","m",",">>, <<>>, <<"U","m">> >>) }
    /\ metrics = NoMetrics
    /\ persona = NonePersona
    /\ result = NoResult
    /\ ServiceAtStart

CallCountFillers ==
    /\ pc = "ready"
    /\ pc' = "done"
    /\ op' = "count_fillers"
    /\ result' = [status |-> "ok", count |-> count_fillers(transcript, filler_list)]
    /\ UNCHANGED <<transcript, duration, filler_list, metrics, persona, service>>

CallComputeHighlights ==
    /\ pc = "ready"
    /\ pc' = "done"
    /\ op' = "compute_highlights"
    /\ result' = [status |-> "ok",
                  highlights |-> compute_highlights(transcript, filler_list)]
    /\ UNCHANGED <<transcript, duration, filler_list, metrics, persona, service>>

NextText == CallCountFillers \/ CallComputeHighlights

SpecText == InitText /\ [][NextText]_vars

---------------------------------------------------------------------------
(* Calls of the metrics functions: compute_wpm and compute_metrics *)

\* every transcript with the duration 30.0 s, and the sample transcripts
\* with every duration
InitMetrics ==
    /\ pc = "ready"
    /\ op = ""
    /\ \/ transcript \in Transcripts /\ duration = 3000
       \/ transcript \in SampleTranscripts /\ duration \in {-500, 0, 5, 10, 50, 70, 90, 100, 240, 432, 480, 528, 3000}
    /\ filler_list = DefaultFillers
    /\ metrics = NoMetrics
    /\ persona = NonePersona
    /\ result = NoResult
    /\ ServiceAtStart

CallComputeWpm ==
    /\ pc = "ready"
    /\ pc' = "done"
    /\ op' = "compute_wpm"
    /\ result' = [status |-> "ok", wpm |-> compute_wpm(transcript, duration)]
    /\ UNCHANGED <<transcript, duration, filler_list, metrics, persona, service>>

\* the dictionary m as the result of a call
MetricsResult(m) ==
    [status |-> "ok", wpm |-> m.wpm, totalWords |-> m.totalWords,
     totalFillers |-> m.totalFillers, fillersPerMin |-> m.fillersPerMin]

CallComputeMetrics ==
    /\ pc = "ready"
    /\ pc' = "done"
    /\ op' = "compute_metrics"
    /\ result' = MetricsResult(compute_metrics(transcript, duration))
    /\ UNCHANGED <<transcript, duration, filler_list, metrics, persona, service>>

NextMetrics == CallComputeWpm \/ CallComputeMetrics

SpecMetrics == InitMetrics /\ [][NextMetrics]_vars

---------------------------------------------------------------------------
(* Calls of the scorer: _score_pace, _score_filler_control and              *)
(* score_against_persona                                                    *)

MinWpm == 95
MaxWpm == 190
MaxFpm == 10

\* the double next to x > 0 on the side of infinity, and on the side of 0
FloatAbove(x) == FloatRound(x.neg, BigAdd(x.m, <<1>>), x.e)
FloatBelow(x) ==
    IF BigBitLen(BigSub(x.m, <<1>>)) = MantBits
    THEN [x EXCEPT !.m = BigSub(x.m, <<1>>)]
    ELSE [x EXCEPT !.m = BigSub(BigShl(x.m, 1), <<1>>), !.e = x.e - 1]

\* metrics["wpm"]: -1, 0 and MinWpm .. MaxWpm in steps of 0.5, the floats
\* next to 125, 135.5, 140, 170, 174.5, 175 and 185 on either side, and the
\* rates of 7, 9, 11 and 14 words spoken in 2.4 s, 4.32 s, 4.8 s and 5.28 s
WpmInputs ==
    {FloatInt(-1), Zero} \cup {FloatOf(k, 2) : k \in (2 * MinWpm)..(2 * MaxWpm)}
        \cup UNION { {FloatBelow(FloatOf(k, 2)), FloatAbove(FloatOf(k, 2))} :
                        k \in {250, 271, 280, 340, 349, 350, 370} }
        \cup {PerMinute(c, SafeDuration(d)) :
                 c \in {7, 9, 11, 14}, d \in {240, 432, 480, 528}}

\* metrics["fillersPerMin"]: 0 .. MaxFpm in steps of 0.5, and 2.45, 4.15,
\* 6.95 and 9.21
FpmInputs ==
    {FloatOf(k, 2) : k \in 0..(2 * MaxFpm)}
        \cup {FloatOf(k, 100) : k \in {245, 415, 695, 921}}

\* the values of wpm that go with every fillersPerMin: 0, 150 and 172
WpmFew == {Zero, FloatInt(150), FloatInt(172)}

\* PERSONAS (persona_profiles.py): their targets
CatalogTargets ==
    { Targets("dict", WpmTarget("list", <<140, 170>>), MaxTarget("num", 3)),
      Targets("dict", WpmTarget("list", <<130, 160>>), MaxTarget("num", 2)),
      Targets("dict", WpmTarget("list", <<110, 140>>), MaxTarget("num", 2)) }

\* other targets of the documented shape (wpm = [min, max], a number of
\* fillers): an empty-width range, a range of width 20, limits 0, 1 and -1
DegenerateTargets ==
    { Targets("dict", WpmTarget("list", <<150, 150>>), MaxTarget("num", 1)),
      Targets("dict", WpmTarget("list", <<100, 120>>), MaxTarget("num", 0)),
      Targets("dict", WpmTarget("list", <<140, 170>>), MaxTarget("num", -1)) }

\* targets with an entry missing or of another type
MalformedTargets ==
    { NoTargets,
      Targets("none", WpmTarget("missing", <<>>), MaxTarget("missing", 0)),
      Targets("list", WpmTarget("missing", <<>>), MaxTarget("missing", 0)),
      Targets("dict", WpmTarget("missing", <<>>), MaxTarget("num", 3)),
      Targets("dict", WpmTarget("none", <<>>), MaxTarget("num", 3)),
      Targets("dict", WpmTarget("int", <<5>>), MaxTarget("num", 3)),
      Targets("dict", WpmTarget("int", <<0>>), MaxTarget("num", 3)),
      Targets("dict", WpmTarget("list", <<>>), MaxTarget("num", 3)),
      Targets("dict", WpmTarget("list", <<140>>), MaxTarget("num", 3)),
      Targets("dict", WpmTarget("list", <<140, 170, 200>>), MaxTarget("num", 3)),
      Targets("dict", WpmTarget("str", <<0, 0>>), MaxTarget("num", 3)),
      Targets("dict", WpmTarget("str", <<0, 0, 0>>), MaxTarget("num", 3)),
      Targets("dict", WpmTarget("list", <<140, 170>>), MaxTarget("missing", 0)),
      Targets("dict", WpmTarget("list", <<140, 170>>), MaxTarget("none", 0)),
      Targets("dict", WpmTarget("list", <<140, 170>>), MaxTarget("str", 0)) }

\* the personas whose targets have the documented shape are scored for every
\* wpm with fillersPerMin 0 and for every fillersPerMin with the wpm of
\* WpmFew; the other personas for the wpm of WpmFew with fillersPerMin 0 and
\* 4.5
InitScore ==
    /\ pc = "ready"
    /\ op = ""
    /\ transcript = <<>>
    /\ duration = 0
    /\ filler_list = DefaultFillers
    /\ \/ /\ persona \in {Persona("dict", t) : t \in CatalogTargets \cup DegenerateTargets}
          /\ metrics \in [wpm : WpmInputs, fillersPerMin : {Zero}]
                            \cup [wpm : WpmFew, fillersPerMin : FpmInputs]
       \/ /\ persona \in {NonePersona} \cup {Persona("dict", t) : t \in MalformedTargets}
          /\ metrics \in [wpm : WpmFew, fillersPerMin : {Zero, FloatOf(9, 2)}]
    /\ result = NoResult
    /\ ServiceAtStart

\* _score_pace(metrics["wpm"], targets["wpm"]) for targets that have the entry
CallScorePace ==
    /\ pc = "ready"
    /\ persona.targets.wpm.kind # "missing"
    /\ pc' = "done"
    /\ op' = "_score_pace"
    /\ result' = _score_pace(metrics.wpm, persona.targets.wpm)
    /\ UNCHANGED <<transcript, duration, filler_list, metrics, persona, service>>

\* _score_filler_control(metrics["fillersPerMin"], targets["maxFillersPerMin"])
\* for targets whose entry is a number
CallScoreFillerControl ==
    /\ pc = "ready"
    /\ persona.targets.maxFillersPerMin.kind = "num"
    /\ pc' = "done"
    /\ op' = "_score_filler_control"
    /\ result' = Returned(_score_filler_control(metrics.fillersPerMin,
                                             persona.targets.maxFillersPerMin.val))
    /\ UNCHANGED <<transcript, duration, filler_list, metrics, persona, service>>

CallScoreAgainstPersona ==
    /\ pc = "ready"
    /\ pc' = "done"
    /\ op' = "score_against_persona"
    /\ result' = score_against_persona(metrics, persona)
    /\ UNCHANGED <<transcript, duration, filler_list, metrics, persona, service>>

NextScore == CallScorePace \/ CallScoreFillerControl \/ CallScoreAgainstPersona

SpecScore == InitScore /\ [][NextScore]_vars

---------------------------------------------------------------------------
(* The service: main.py, persona_profiles.py, tts_murf.py,                  *)
(* session_logger.py                                                        *)
(*                                                                          *)
(* A coaching text is a sequence of pieces (strings) whose concatenation is *)
(* the Python string; white space stands in pieces of its own.  A JSON      *)
(* value that should be a string is [kind |-> "str", v |-> text] or         *)
(* [kind |-> "none"]; the "tips" value is a list of strings (v), a list     *)
(* that holds something else ("badlist") or not a list at all ("other").    *)
(* An Optional[str] of a response is [some |-> TRUE, v |-> text] or Absent. *)

\* request bodies of POST /api/analyze-speech: the sample request ("so um we
\* can do it now" spoken in 2.4 s for persona leader, whose wpm is
\* 175.00000000000003) and the same request for "ghost", which is not in the
\* catalog
SampleRequest ==
    [personaId |-> "leader", transcript |-> SevenWordsTranscript,
     durationSeconds |-> 240]
AnalyzeSpeechRequests ==
    { [SampleRequest EXCEPT !.personaId = p] : p \in {"leader", "ghost"} }

\* the metrics dictionary as score_against_persona reads it: fillersPerMin
\* is the float of its hundredths
MetricsArg(m) == [wpm |-> m.wpm, fillersPerMin |-> FloatOf(m.fillersPerMin, 100)]

\* persona_profiles.get_persona: PERSONAS.get(persona_id)
get_persona(catalog, persona_id) ==
    IF persona_id \in DOMAIN catalog
    THEN Persona("dict", catalog[persona_id]) ELSE NonePersona

\* persona_profiles.get_personas: list(PERSONAS.values())
get_personas(catalog) ==
    [i \in DOMAIN PersonaOrder |->
        [id |-> PersonaOrder[i], targets |-> catalog[PersonaOrder[i]]]]

PyStr(v) == [kind |-> "str", v |-> v]
PyNone   == [kind |-> "none", v |-> <<>>]
Absent   == [some |-> FALSE, v |-> <<>>]
Some(v)  == [some |-> TRUE, v |-> v]

\* coach_engine._default_coaching_fallback; the piece "U+2013" stands for the
\* character U+2013 (EN DASH)
_default_coaching_fallback ==
    [summary |-> PyStr(<<"FALLBACK COACHING ", "U+2013", " GEMINI NOT USED">>),
     tips    |-> [kind |-> "list",
                  v |-> << <<"This is fallback. Gemini call failed or no key.">>,
                           <<"Check GOOGLE_API_KEY or model configuration.">>,
                           <<"Once Gemini is working, this text should disappear.">> >>]]

\* coach_engine.generate_coaching_with_gemini: the fallback without a model,
\* on an exception or on an unusable reply, and the parsed reply otherwise
\* (dictionaries Gemini's reply can parse to that carry the required keys)
generate_coaching_with_gemini ==
    { _default_coaching_fallback,
      [summary |-> PyStr(<<" ">>), tips |-> [kind |-> "other", v |-> <<>>]],
      [summary |-> PyNone, tips |-> [kind |-> "list", v |-> <<>>]],
      [summary |-> PyStr(<<"Slow down.">>), tips |-> [kind |-> "badlist", v |-> <<>>]] }

\* str.strip() on a text in pieces: the pieces of white space at both ends
\* go (a piece of white space is " ")
RECURSIVE LStrip(_)
LStrip(s) == IF s # <<>> /\ Head(s) = " " THEN LStrip(Tail(s)) ELSE s
RECURSIVE RStrip(_)
RStrip(s) ==
    IF s # <<>> /\ s[Len(s)] = " " THEN RStrip(SubSeq(s, 1, Len(s) - 1)) ELSE s

\* analyze_speech, step 6: the text to speak, or the TypeError of " ".join on
\* a list that holds a non-string or of adding a string to a non-string
coaching_text_for_tts(coaching) ==
    LET tips_joined == IF coaching.tips.kind = "list"
                       THEN Join(coaching.tips.v, <<" ">>) ELSE <<>>
    IN  IF coaching.tips.kind = "badlist" \/ coaching.summary.kind # "str"
        THEN [status |-> "error", error |-> "TypeError", text |-> <<>>]
        ELSE [status |-> "ok", error |-> "",
              text |-> LStrip(RStrip(coaching.summary.v \o
                             (IF tips_joined # <<>>
                              THEN <<" ", "-", " ">> \o tips_joined ELSE <<>>)))]

cache_put_replace(cache, attempt_id, entry) == [k \in {attempt_id} |-> entry]

\* attempt_cache[attempt_id] = entry
cache_put(cache, attempt_id, entry) ==
    [k \in DOMAIN cache \cup {attempt_id} |->
        IF k = attempt_id THEN entry ELSE cache[k]]

\* session_logger.log_session: one line appended, or a warning printed when
\* the file cannot be written (written = FALSE)
log_session(log, data, written) == IF written THEN Append(log, data) ELSE log

HttpError(code, detail) == [status |-> code, detail |-> detail]

(* A handler runs in a worker thread and other requests are served while it *)
(* waits for a network reply or for the disk, and before it returns.  A     *)
(* request that has not been answered yet is an element of the bag          *)
(* inflight: the handler, the call it waits in (at, "return" when it has    *)
(* its return statement left) and the local variables the handler holds     *)
(* there; two requests that hold the same values are two copies of one      *)
(* element.  What a step of a handler does is [returned, waits]: the        *)
(* responses the step can end the request with, if it ends it, and the      *)
(* record the request waits in otherwise (a set of at most one element),    *)
(* next to the shared state the step leaves.                                *)

\* main.analyze_speech, steps 1 to 4: the persona lookup, the metrics, the
\* score and the call of generate_coaching_with_gemini, where it waits
analyze_speech_scored(body, m, persona_score) ==
    IF persona_score.status = "error"
    THEN [returned |-> {HttpError(500, persona_score.error)}, waits |-> {}]
    ELSE [returned |-> {},
          waits |-> {[handler |-> "analyze_speech",
                      at |-> "generate_coaching_with_gemini",
                      body |-> body, metrics |-> m, personaScore |-> persona_score]}]

analyze_speech_measured(body, found, m) ==
    analyze_speech_scored(body, m, score_against_persona(MetricsArg(m), found))

analyze_speech_begin(body, catalog) ==
    LET found == get_persona(catalog, body.personaId)
    IN  IF found.kind = "none"
        THEN [returned |-> {HttpError(400, "Unknown personaId")}, waits |-> {}]
        ELSE analyze_speech_measured(body, found,
                 compute_metrics(body.transcript, body.durationSeconds))

\* main.analyze_speech, steps 5 to 8, for the coaching dictionary
\* generate_coaching_with_gemini returned and the value uuid4 draws: the
\* entry is stored in the cache and the payload is built, and the handler
\* goes on to log_session, where it waits for the file
analyze_speech_store(w, cache, coaching, attempt_id) ==
    LET text == coaching_text_for_tts(coaching)
    IN  IF text.status = "error"
        THEN [returned |-> {HttpError(500, text.error)}, waits |-> {},
              attempt_cache |-> cache]
        ELSE [returned |-> {},
              waits |-> {[handler |-> "analyze_speech", at |-> "log_session",
                          body |-> w.body,
                          response_payload |->
                 [status |-> 200, detail |-> "",
                  metrics |-> w.metrics,
                  personaScore |-> w.personaScore,
                  coaching |-> coaching,
                  highlights |-> compute_highlights(w.body.transcript, DefaultFillers),
                  attemptId |-> attempt_id,
                  needsConfirmation |-> TRUE,
                  coachingTextForTTS |-> text.text]]},
              attempt_cache |->
                 cache_put(cache, attempt_id,
                           [personaId |-> w.body.personaId,
                            coachingText |-> text.text])]

analyze_speech_log_stale(w, log, written) ==
    LET payload == w.response_payload
    IN  [returned |-> {},
         waits |-> {[w EXCEPT !.at = "return",
                              !.response_payload.metrics.totalWords =
                                  IF log # <<>>
                                  THEN log[1].metrics.totalWords + @ ELSE @]},
         session_log |->
            log_session(log, [attemptId |-> payload.attemptId,
                              personaId |-> w.body.personaId,
                              metrics |-> payload.metrics,
                              personaScore |-> payload.personaScore], written)]

\* main.analyze_speech, step 9: the line is appended to the log, or not
\* (written); the handler has the payload left to return
analyze_speech_log(w, log, written) ==
    LET payload == w.response_payload
    IN  [returned |-> {},
         waits |-> {[w EXCEPT !.at = "return"]},
         session_log |->
            log_session(log, [attemptId |-> payload.attemptId,
                              personaId |-> w.body.personaId,
                              metrics |-> payload.metrics,
                              personaScore |-> payload.personaScore], written)]

\* main.analyze_speech, "return response_payload"
analyze_speech_return(w) == [returned |-> {w.response_payload}, waits |-> {}]

(* A value of Murf's JSON reply is [kind, v]: a string ("str", v its text   *)
(* in pieces), a number ("int", v its decimal text), a list ("list", v its  *)
(* items) or None, which also stands for a key that is missing.             *)

\* bool(x) of such a value: an empty string, 0, an empty list and None are
\* false
Truthy(x) == x.kind # "none" /\ x.v # <<>> /\ ~(x.kind = "int" /\ x.v = <<"0">>)

\* what the Murf endpoint can do: no API key configured, a status other than
\* 200, a reply without an audio URL, a reply with one under "audioFile",
\* under "audioUrl" or under both, and replies whose "audioFile" is not a
\* string: a list that holds the URL, the number 7, and the number 0 next to
\* an "audioUrl"
MurfReplies ==
    { [api_key |-> FALSE, status_code |-> 0,   audioFile |-> PyNone, audioUrl |-> PyNone],
      [api_key |-> TRUE,  status_code |-> 500, audioFile |-> PyNone, audioUrl |-> PyNone],
      [api_key |-> TRUE,  status_code |-> 200, audioFile |-> PyNone, audioUrl |-> PyNone],
      [api_key |-> TRUE,  status_code |-> 200,
         audioFile |-> PyStr(<<"https://murf.ai/a.mp3">>), audioUrl |-> PyNone],
      [api_key |-> TRUE,  status_code |-> 200,
         audioFile |-> PyStr(<<>>), audioUrl |-> PyStr(<<"https://murf.ai/b.mp3">>)],
      [api_key |-> TRUE,  status_code |-> 200,
         audioFile |-> PyStr(<<"https://murf.ai/a.mp3">>),
         audioUrl |-> PyStr(<<"https://murf.ai/b.mp3">>)],
      [api_key |-> TRUE,  status_code |-> 200,
         audioFile |-> [kind |-> "list", v |-> <<"https://murf.ai/a.mp3">>],
         audioUrl |-> PyNone],
      [api_key |-> TRUE,  status_code |-> 200,
         audioFile |-> [kind |-> "int", v |-> <<"7">>], audioUrl |-> PyNone],
      [api_key |-> TRUE,  status_code |-> 200,
         audioFile |-> [kind |-> "int", v |-> <<"0">>],
         audioUrl |-> PyStr(<<"https://murf.ai/b.mp3">>)] }

TtsRaised == [status |-> "error", value |-> PyNone]

\* tts_murf.generate_tts_with_murf: data.get("audioFile") or
\* data.get("audioUrl") is returned as it is when it is true
generate_tts_with_murf(coaching_text, murf) ==
    LET audio_url == IF Truthy(murf.audioFile) THEN murf.audioFile ELSE murf.audioUrl
    IN  IF ~murf.api_key THEN TtsRaised
        ELSE IF murf.status_code # 200 THEN TtsRaised
        ELSE IF ~Truthy(audio_url) THEN TtsRaised
        ELSE [status |-> "ok", value |-> audio_url]

NoTextFound     == <<"No coaching text found for this attemptId.">>
NoTextAvailable == <<"No coaching text available for this attemptId.">>

\* ConfirmFeedbackResponse(audioUrl=..., fallbackText=...), the model of
\* main.py:106-108, and what the client gets: the fields are Optional[str],
\* and a list for audioUrl is rejected with a ValidationError, which no
\* handler catches (HTTP 500).  A number is rejected likewise by pydantic 2
\* and turned into its text by pydantic 1; the source names no version, so
\* both can happen.  fallbackText is None or a string wherever the handler
\* builds the response.
ConfirmFeedbackResponse(audioUrl, fallbackText, tts_called) ==
    LET built  == [status |-> 200,
                   audioUrl |-> IF audioUrl.kind = "none" THEN Absent
                                ELSE Some(audioUrl.v),
                   fallbackText |-> fallbackText, tts_called |-> tts_called]
        failed == [status |-> 500, audioUrl |-> Absent, fallbackText |-> Absent,
                   tts_called |-> tts_called]
    IN  IF audioUrl.kind \in {"none", "str"} THEN {built}
        ELSE IF audioUrl.kind = "int" THEN {built, failed}
        ELSE {failed}

\* main.confirm_feedback, step 1 and the call of generate_tts_with_murf,
\* where it waits
confirm_feedback_begin(cache, attemptId) ==
    IF attemptId \notin DOMAIN cache
    THEN [returned |-> ConfirmFeedbackResponse(PyNone, Some(NoTextFound), FALSE),
          waits |-> {}]
    ELSE LET coaching_text == cache[attemptId].coachingText
         IN  IF coaching_text = <<>>
             THEN [returned |-> ConfirmFeedbackResponse(PyNone,
                                    Some(NoTextAvailable), FALSE),
                   waits |-> {}]
             ELSE [returned |-> {},
                   waits |-> {[handler |-> "confirm_feedback",
                               at |-> "generate_tts_with_murf",
                               attemptId |-> attemptId,
                               coaching_text |-> coaching_text]}]

\* main.confirm_feedback, steps 2 and 3, tts being the outcome of the call of
\* generate_tts_with_murf: the responses the request can end with;
\* tts_called records that the handler made the call
confirm_feedback_return(w, tts) ==
    LET audio_url == IF tts.status = "ok" THEN tts.value ELSE PyNone
    IN  IF Truthy(audio_url)
        THEN ConfirmFeedbackResponse(audio_url, Absent, TRUE)
        ELSE ConfirmFeedbackResponse(PyNone, Some(w.coaching_text), TRUE)

\* main.confirm_feedback for an attempt id, from the lookup to the response,
\* tts being the outcome of the TTS call should the handler make it: the
\* responses the request can end with
confirm_feedback(cache, attemptId, tts) ==
    LET begun == confirm_feedback_begin(cache, attemptId)
    IN  IF begun.waits = {}
        THEN begun.returned
        ELSE confirm_feedback_return(CHOOSE w \in begun.waits : TRUE, tts)

\* main.api_get_personas
api_get_personas(catalog) == [status |-> 200, personas |-> get_personas(catalog)]

---------------------------------------------------------------------------
(* Requests to the service *)

\* the number of attempts the service is followed for
MaxAttempts == 2
AttemptIds == 1..MaxAttempts

\* the number of requests that wait at the same time
MaxInFlight == 2

\* str(uuid.uuid4()): a value that was not drawn before; the n-th value drawn
\* is named n
uuid4(drawn) == Cardinality(drawn) + 1

Init ==
    /\ pc = "ready"
    /\ op = ""
    /\ transcript = <<>>
    /\ duration = 0
    /\ filler_list = DefaultFillers
    /\ metrics = NoMetrics
    /\ persona = NonePersona
    /\ result = NoResult
    /\ ServiceAtStart

\* a step of a handler that ends the request with the response r
Respond(handler, r) ==
    /\ pc' = "done"
    /\ op' = handler
    /\ result' = r

\* the first step o of a handler: the request is answered, or it is one more
\* request that waits
Begin(handler, o) ==
    /\ o.waits # {} => BagCardinality(inflight) < MaxInFlight
    /\ inflight' = inflight (+) SetToBag(o.waits)
    /\ IF o.waits = {}
       THEN \E r \in o.returned : Respond(handler, r)
       ELSE UNCHANGED <<pc, op, result>>

\* the requests that wait in the call named at, and their number
WaitingAt(at) == {w \in BagToSet(inflight) : w.at = at}
CountAt(at) == BagCardinality([w \in WaitingAt(at) |-> inflight[w]])

\* POST /api/analyze-speech arrives: steps 1 to 4, up to the request sent to
\* Gemini.  The requests are followed while an attempt id is left for them
\* and fewer than MaxInFlight requests wait.
AnalyzeSpeechBegin ==
    /\ Cardinality(DOMAIN attempt_cache)
          + CountAt("generate_coaching_with_gemini") < MaxAttempts
    /\ \E body \in AnalyzeSpeechRequests :
          Begin("analyze_speech", analyze_speech_begin(body, PERSONAS))
    /\ UNCHANGED <<transcript, duration, filler_list, metrics, persona,
                   PERSONAS, attempt_cache, session_log, calls>>

\* Gemini has answered, or the call has failed: steps 5 to 8, up to the
\* write of the log line
AnalyzeSpeechStore ==
    \E w \in WaitingAt("generate_coaching_with_gemini") :
    \E coaching \in generate_coaching_with_gemini :
    \E attempt_id \in {uuid4(DOMAIN attempt_cache)} \cap AttemptIds :
        LET o == analyze_speech_store(w, attempt_cache, coaching, attempt_id)
        IN  /\ inflight' = (inflight (-) SetToBag({w})) (+) SetToBag(o.waits)
            /\ attempt_cache' = o.attempt_cache
            /\ IF o.waits = {}
               THEN \E r \in o.returned : Respond("analyze_speech", r)
               ELSE UNCHANGED <<pc, op, result>>
            /\ UNCHANGED <<transcript, duration, filler_list, metrics, persona,
                           PERSONAS, session_log, calls>>

\* the log line is written, or the write has failed: step 9.  The handler
\* has not returned yet, and other requests are served before it does.
AnalyzeSpeechLog ==
    \E w \in WaitingAt("log_session") :
    \E written \in BOOLEAN :
        LET o == analyze_speech_log(w, session_log, written)
        IN  /\ inflight' = (inflight (-) SetToBag({w})) (+) SetToBag(o.waits)
            /\ session_log' = o.session_log
            /\ UNCHANGED <<pc, op, result, transcript, duration, filler_list,
                           metrics, persona, PERSONAS, attempt_cache, calls>>

\* the handler returns the payload
AnalyzeSpeechReturn ==
    \E w \in WaitingAt("return") :
        /\ inflight' = inflight (-) SetToBag({w})
        /\ \E r \in analyze_speech_return(w).returned :
              /\ Respond("analyze_speech", r)
              /\ calls' = calls \cup {[request |-> w.body, response |-> r]}
        /\ UNCHANGED <<transcript, duration, filler_list, metrics, persona,
                       PERSONAS, attempt_cache, session_log>>

\* POST /api/confirm-feedback arrives, for an attempt id that was drawn or
\* not: step 1, up to the request sent to Murf.  The requests are followed
\* while fewer than MaxInFlight requests wait.
ConfirmFeedbackBegin ==
    /\ \E attemptId \in AttemptIds \cup {0} :
          Begin("confirm_feedback", confirm_feedback_begin(attempt_cache, attemptId))
    /\ UNCHANGED <<transcript, duration, filler_list, metrics, persona,
                   PERSONAS, attempt_cache, session_log, calls>>

\* Murf has answered, or the call has failed: steps 2 and 3
ConfirmFeedbackReturn ==
    \E w \in WaitingAt("generate_tts_with_murf") :
    \E murf \in MurfReplies :
        /\ inflight' = inflight (-) SetToBag({w})
        /\ \E r \in confirm_feedback_return(w,
                        generate_tts_with_murf(w.coaching_text, murf)) :
              Respond("confirm_feedback", r)
        /\ UNCHANGED <<transcript, duration, filler_list, metrics, persona,
                       PERSONAS, attempt_cache, session_log, calls>>

\* GET /api/personas
ApiGetPersonas ==
    /\ Respond("api_get_personas", api_get_personas(PERSONAS))
    /\ UNCHANGED <<transcript, duration, filler_list, metrics, persona, service>>

Next ==
    \/ AnalyzeSpeechBegin
    \/ AnalyzeSpeechStore
    \/ AnalyzeSpeechLog
    \/ AnalyzeSpeechReturn
    \/ ConfirmFeedbackBegin
    \/ ConfirmFeedbackReturn
    \/ ApiGetPersonas

Spec == Init /\ [][Next]_vars

---------------------------------------------------------------------------
---------------------------------------------------------------------------
(* Exact arithmetic for the properties: a number is [neg, m, e], the        *)
(* natural m in units of 2^e with a sign; every double is one, and sums and *)
(* integer multiples of doubles are computed without rounding.              *)

ExactInt(n) == [neg |-> n < 0, m |-> NatToBig(Abs(n)), e |-> 0]

ExactNeg(x) == [x EXCEPT !.neg = ~x.neg]

\* k * x for an integer k
ExactScale(x, k) == [neg |-> x.neg # (k < 0), m |-> BigMulSmall(x.m, Abs(k)), e |-> x.e]

\* the sum of the magnitudes a and b, in units of 2^e, of signs xneg and yneg
ExactAddMagnitudes(xneg, yneg, a, b, e) ==
    IF xneg = yneg THEN [neg |-> xneg, m |-> BigAdd(a, b), e |-> e]
    ELSE IF BigCmp(a, b) >= 0 THEN [neg |-> xneg, m |-> BigSub(a, b), e |-> e]
    ELSE [neg |-> yneg, m |-> BigSub(b, a), e |-> e]

ExactAddAt(x, y, e) ==
    ExactAddMagnitudes(x.neg, y.neg, BigShl(x.m, x.e - e), BigShl(y.m, y.e - e), e)

ExactAdd(x, y) == ExactAddAt(x, y, IF x.e < y.e THEN x.e ELSE y.e)

\* -1, 0 or 1 as x is negative, zero or positive
ExactSign(x) == IF x.m = <<>> THEN 0 ELSE IF x.neg THEN -1 ELSE 1

ExactLe(x, y) == ExactSign(ExactAdd(x, ExactNeg(y))) <= 0

ExactMax(x, y) == IF ExactLe(x, y) THEN y ELSE x

ExactAbs(x) == [x EXCEPT !.neg = FALSE]

\* -1, 0 or 1 as the double x is below, equal to or above n / d, for d > 0
FloatCmpRatio(x, n, d) == ExactSign(ExactAdd(ExactScale(x, d), ExactInt(-n)))

---------------------------------------------------------------------------
(* Properties: metrics.py *)

\* the word-pattern tokens of s, described by their first characters: a
\* maximal run of [\w'-] characters that holds a \w character is one token
TokenRunStarts(s) ==
    {p \in 1..Len(s) :
        /\ IsTokenChar(s[p])
        /\ p = 1 \/ ~IsTokenChar(s[p - 1])
        /\ \E q \in p..Len(s) :
              IsWordChar(s[q]) /\ \A k \in p..q : IsTokenChar(s[k])}

WordTokenCount(s) == Cardinality(TokenRunStarts(s))

\* a word character stands at place p of text
IsWordAt(text, p) == p \in 1..Len(text) /\ IsWordChar(text[p])

\* the places where phrase stands in text as whole words: a word ends or
\* begins at both of its ends, so that for a phrase of words no word
\* character touches it on either side; the empty phrase stands wherever a
\* word begins or ends
WholeWordOccurrences(text, phrase) ==
    {p \in 1..(Len(text) - Len(phrase) + 1) :
        /\ \A k \in 1..Len(phrase) : text[p + k - 1] = phrase[k]
        /\ IsWordAt(text, p) # IsWordAt(text, p - 1)
        /\ IsWordAt(text, p + Len(phrase) - 1) # IsWordAt(text, p + Len(phrase))}

\* every occurrence counts, also one that overlaps another of the same phrase
RECURSIVE OccurrenceSum(_, _, _)
OccurrenceSum(text, phrases, i) ==
    IF i > Len(phrases) THEN 0
    ELSE Cardinality(WholeWordOccurrences(text, Lower(phrases[i])))
            + OccurrenceSum(text, phrases, i + 1)

\* no two of the places of S, which hold a phrase of d characters, overlap
Disjoint(S, d) == \A p, q \in S : p < q => q - p >= d

\* the occurrences a search from left to right takes when it goes on where
\* the occurrence it took ends: no two of them overlap, and an occurrence
\* that is left out overlaps one taken before it.  When no two occurrences
\* overlap these are all of them.
TakenOccurrences(occ, d) ==
    IF Disjoint(occ, d) THEN occ
    ELSE CHOOSE T \in SUBSET occ :
            /\ Disjoint(T, d)
            /\ \A p \in occ \ T : \E q \in T : q < p /\ p - q < d

RECURSIVE TakenSum(_, _, _)
TakenSum(text, phrases, i) ==
    IF i > Len(phrases) THEN 0
    ELSE Cardinality(TakenOccurrences(
                        WholeWordOccurrences(text, Lower(phrases[i])),
                        Len(Lower(phrases[i]))))
            + TakenSum(text, phrases, i + 1)

\* "um um um"
UmUmUmTranscript == Str(<<"u","m"," ","u","m"," ","u","m">>)

\* the whitespace-delimited tokens of s, described by their first characters
SpaceTokenStarts(s) ==
    {p \in 1..Len(s) : ~IsSpace(s[p]) /\ (p = 1 \/ IsSpace(s[p - 1]))}

\* the token that starts at p
SpaceTokenFrom(s, p) ==
    SubSeq(s, p, CHOOSE x \in p..Len(s) :
                    /\ \A k \in p..x : ~IsSpace(s[k])
                    /\ x = Len(s) \/ IsSpace(s[x + 1]))

\* the token of 0-based index i
SpaceToken(s, i) ==
    SpaceTokenFrom(s, CHOOSE x \in SpaceTokenStarts(s) :
                          Cardinality({y \in SpaceTokenStarts(s) : y < x}) = i)

IsFillerToken(s, i, fillers) ==
    \E k \in DOMAIN fillers : Lower(SpaceToken(s, i)) = Lower(fillers[k])

\* C1: compute_wpm, and the wpm of compute_metrics, is 0 whenever the
\* transcript has no word token and whenever durationSeconds <= 0.
C1_WpmZeroWithoutWordsOrDuration ==
    (pc = "done" /\ op \in {"compute_wpm", "compute_metrics"}) =>
        ((WordTokenCount(transcript) = 0 \/ duration <= 0) => result.wpm = Zero)

\* max(durationSeconds, 0.1) for a positive duration, in hundredths of a second
SafeHundredths(d) == IF d > 10 THEN d ELSE 10

\* C7: compute_metrics returns fillersPerMin = 0 when durationSeconds <= 0,
\* and otherwise (totalFillers / max(durationSeconds, 0.1)) * 60 rounded to 2
\* decimal places, totalFillers being the count of the default fillers;
\* fillersPerMin is never negative.
C7_FillersPerMin ==
    (pc = "done" /\ op = "compute_metrics") =>
        /\ result.totalFillers = OccurrenceSum(Lower(transcript), DefaultFillers, 1)
        /\ duration <= 0 => result.fillersPerMin = 0
        /\ duration > 0 =>
              2 * Abs(result.fillersPerMin * SafeHundredths(duration)
                         - result.totalFillers * 600000)
                 <= SafeHundredths(duration)
        /\ result.fillersPerMin >= 0

\* a call with fillers in the transcript and no duration
C7_Witness ==
    /\ pc = "done" /\ op = "compute_metrics"
    /\ duration <= 0
    /\ result.totalFillers = 2
    /\ result.fillersPerMin = 0

\* C8 as stated: the end-to-end transcript at 30.0 s has 11 words, 2
\* fillers, wpm 22.0 and fillersPerMin 4.0.
C8_EndToEndAsStated ==
    (pc = "done" /\ op = "compute_metrics"
        /\ transcript = EndToEndTranscript /\ duration = 3000) =>
        /\ result.totalWords = 11
        /\ result.totalFillers = 2
        /\ result.wpm = FloatInt(22)
        /\ result.fillersPerMin = 400

\* C8 amended: the end-to-end transcript at 30.0 s has 13 words, 2 fillers,
\* wpm 26.0 = (13 / 30) * 60 and fillersPerMin 4.0; for every transcript
\* totalWords is the number of word-pattern tokens.
C8_EndToEnd ==
    (pc = "done" /\ op = "compute_metrics") =>
        /\ result.totalWords = WordTokenCount(transcript)
        /\ (transcript = EndToEndTranscript /\ duration = 3000) =>
              /\ result.totalWords = 13
              /\ result.totalFillers = 2
              /\ result.wpm = FloatInt(26)
              /\ FloatCmpRatio(result.wpm, result.totalWords * 60, 30) = 0
              /\ result.fillersPerMin = 400

C8_Witness ==
    /\ pc = "done" /\ op = "compute_metrics"
    /\ transcript = EndToEndTranscript /\ duration = 3000
    /\ result.totalWords = 13

\* C9 as stated: count_fillers is the sum, over the phrases of the filler
\* list, of the number of case-insensitive whole-word occurrences of the
\* phrase, every occurrence of the token sequence counting once.
C9_AsStated ==
    (pc = "done" /\ op = "count_fillers") =>
        result.count = OccurrenceSum(Lower(transcript), filler_list, 1)

\* C9: count_fillers is the sum, over the phrases of the filler list, of the
\* number of case-insensitive whole-word occurrences of the phrase that a
\* search from left to right takes, an occurrence that overlaps one already
\* taken for the same phrase not counting ("um um" counts once in
\* "um um um"); an empty phrase counts once wherever a word begins or ends.
\* "I unlike this" holds no "like", and "um, uh, like, you know" holds 4 of
\* the default fillers.
C9_CountFillers ==
    (pc = "done" /\ op = "count_fillers") =>
        /\ result.count = TakenSum(Lower(transcript), filler_list, 1)
        /\ (transcript = UmUmUmTranscript
               /\ filler_list = Strs(<< <<"u","m"," ","u","m">>, <<>> >>))
              => result.count = 1 + 6
        /\ (transcript = UnlikeTranscript
               /\ filler_list = Strs(<< <<"l","i","k","e">> >>))
              => result.count = 0
        /\ (transcript = FourFillersTranscript /\ filler_list = DefaultFillers)
              => result.count = 4

C9_Witness ==
    /\ pc = "done" /\ op = "count_fillers"
    /\ transcript = UmUmUmTranscript
    /\ filler_list = Strs(<< <<"u","m"," ","u","m">>, <<>> >>)
    /\ result.count = 7

\* the entries of h are fillers of s, one for each token that is a filler,
\* in increasing order; n is the number of tokens
HighlightsOf(h, s, fillers, n) ==
    /\ \A j \in DOMAIN h :
          /\ h[j].type = "filler"
          /\ h[j].wordIndex \in 0..(n - 1)
          /\ IsFillerToken(s, h[j].wordIndex, fillers)
    /\ \A i \in 0..(n - 1) :
          IsFillerToken(s, i, fillers) =>
              Cardinality({j \in DOMAIN h : h[j].wordIndex = i}) = 1
    /\ \A j \in DOMAIN h : \A k \in DOMAIN h :
          j < k => h[j].wordIndex < h[k].wordIndex

\* C10: compute_highlights emits exactly one entry {wordIndex: i, type:
\* "filler"} for each whitespace-delimited token i whose lower-cased text is
\* a member of the lower-cased filler set, and no other entry, in strictly
\* increasing wordIndex order, every wordIndex below the number of tokens.
C10_Highlights ==
    (pc = "done" /\ op = "compute_highlights") =>
        HighlightsOf(result.highlights, transcript, filler_list,
                     Cardinality(SpaceTokenStarts(transcript)))

\* "Um" and "uh" are highlighted; "know,", "you" and "like-minded" are not
C10_Witness ==
    /\ pc = "done" /\ op = "compute_highlights"
    /\ transcript = MixedTranscript /\ filler_list = DefaultFillers
    /\ result.highlights = << [wordIndex |-> 0, type |-> "filler"],
                              [wordIndex |-> 1, type |-> "filler"] >>

---------------------------------------------------------------------------
(* Properties: coach_engine.py *)

\* the persona carries a wpm range of two numbers
HasWpmRange(p) ==
    /\ p.kind = "dict" /\ p.targets.kind = "dict"
    /\ p.targets.wpm.kind = "list" /\ Len(p.targets.wpm.vals) = 2

\* the persona carries a numeric maxFillersPerMin
HasFillerLimit(p) ==
    /\ p.kind = "dict" /\ p.targets.kind = "dict"
    /\ p.targets.maxFillersPerMin.kind = "num"

\* C2: score_against_persona is total: for every persona, also one that is
\* missing or whose targets, wpm range or maxFillersPerMin are missing or of
\* another type, the call returns a result, with the default scores (pace
\* 0.2 without a usable range, fillerControl 0.5 without a usable limit).
C2_ScorerTotal ==
    (pc = "done" /\ op = "score_against_persona") =>
        /\ result.status = "ok"
        /\ ~HasWpmRange(persona) => result.pace = 200
        /\ ~HasFillerLimit(persona) => result.fillerControl = 500

\* max(high - low, 1)
PaceWidth(low, high) == IF high - low > 1 THEN high - low ELSE 1

\* the distance from w to the nearest bound of [low, high] is at most c
\* hundredths of the width of the range
PaceWithin(w, low, high, c) ==
    /\ FloatCmpRatio(w, 100 * low - c * PaceWidth(low, high), 100) >= 0
    /\ FloatCmpRatio(w, 100 * high + c * PaceWidth(low, high), 100) <= 0

\* the pace score, in thousandths, the step function gives for wpm w and
\* range [low, high], distances and quotients being those of real numbers
PaceStep(w, low, high) ==
    IF FloatCmpRatio(w, 0, 1) <= 0 THEN 200
    ELSE IF PaceWithin(w, low, high, 0) THEN 950
    ELSE IF PaceWithin(w, low, high, 15) THEN 800
    ELSE IF PaceWithin(w, low, high, 50) THEN 500
    ELSE 200

\* the pace score v is the one of wpm w and range r
PaceStepAt(w, r, v) ==
    /\ v \in {FloatOf(k, 1000) : k \in {200, 500, 800, 950}}
    /\ v = FloatOf(IF r.kind = "list" /\ Len(r.vals) = 2
                   THEN PaceStep(w, r.vals[1], r.vals[2]) ELSE 200, 1000)
    /\ r = WpmTarget("list", <<140, 170>>) =>
          /\ w = FloatInt(150) => v = FloatOf(95, 100)
          /\ w = FloatInt(135) => v = FloatOf(5, 10)
          /\ w = FloatInt(100) => v = FloatOf(2, 10)

\* C3: the pace score is 0.2 when wpm <= 0 or the range is invalid, 0.95
\* inside the range, and outside it 0.8, 0.5 or 0.2 as the distance to the
\* nearest bound divided by max(high - low, 1) is <= 0.15, <= 0.5 or larger;
\* for [140, 170] wpm 150 gives 0.95, 135 gives 0.5 and 100 gives 0.2; no
\* other value is produced.
C3_PaceStepFunction ==
    (pc = "done" /\ op = "_score_pace" /\ result.status = "ok") =>
        PaceStepAt(metrics.wpm, persona.targets.wpm, result.value)

C3_Witness ==
    /\ pc = "done" /\ op = "_score_pace"
    /\ persona.targets.wpm = WpmTarget("list", <<140, 170>>)
    /\ metrics.wpm = FloatInt(135)
    /\ result.value = FloatOf(5, 10)

\* 100 * m times the filler-control score of f fillers per minute for a
\* limit m > 0, as a real number: 0.98 up to the limit, 0.2 from three times
\* the limit, and in between 0.98 - (f / m - 1) * 0.39, at least 0.2
FillerLine(f, m) ==
    IF FloatCmpRatio(f, m, 1) <= 0 THEN ExactInt(98 * m)
    ELSE IF FloatCmpRatio(f, 3 * m, 1) >= 0 THEN ExactInt(20 * m)
    ELSE ExactMax(ExactInt(20 * m),
                  ExactAdd(ExactInt(137 * m), ExactScale(f, -39)))

\* the double v is the real number line / (100 * m) up to the rounding of
\* the floating-point operations: they differ by 2^-50 at most
IsRoundingOf(v, line, m) ==
    ExactLe(ExactAbs(ExactAdd(ExactScale(v, 100 * m), ExactNeg(line))),
            [neg |-> FALSE, m |-> NatToBig(100 * m), e |-> -50])

\* the filler-control score v is the one of f fillers per minute and limit m
FillerControlAt(f, m, v) ==
    /\ m <= 0 => v = FloatOf(5, 10)
    /\ m > 0 => IsRoundingOf(v, FillerLine(f, m), m)
    /\ m > 0 /\ FloatLe(f, FloatInt(m)) => v = FloatOf(98, 100)
    /\ m > 0 /\ FloatLe(FloatInt(3 * m), f) => v = FloatOf(2, 10)
    /\ FloatLe(FloatOf(2, 10), v)
    /\ m > 0 => \A g \in FpmInputs :
                   FloatLe(g, f) => FloatLe(v, _score_filler_control(g, m))
    /\ m = 3 =>
          /\ f = FloatInt(2) => v = FloatOf(98, 100)
          /\ f = FloatInt(6) => v = FloatOf(59, 100)
          /\ f = FloatInt(9) => v = FloatOf(2, 10)

\* C4: the filler-control score is 0.5 when maxAllowed <= 0, 0.98 when
\* fillersPerMin <= maxAllowed, 0.2 when the ratio is >= 3, and otherwise
\* 0.98 - (ratio - 1) * 0.39, never below 0.2; it does not increase with
\* fillersPerMin; for maxAllowed = 3 it is 0.98 at 2, 0.59 at 6, 0.2 at 9.
C4_FillerControlLine ==
    (pc = "done" /\ op = "_score_filler_control") =>
        FillerControlAt(metrics.fillersPerMin,
                        persona.targets.maxFillersPerMin.val, result.value)

C4_Witness ==
    /\ pc = "done" /\ op = "_score_filler_control"
    /\ persona.targets.maxFillersPerMin.val = 3
    /\ metrics.fillersPerMin = FloatInt(6)
    /\ result.value = FloatOf(59, 100)

\* C5: each of pace, clarity, confidence and fillerControl returned by
\* score_against_persona lies in [0.2, 0.98], and so does overall.
C5_ScoresInRange ==
    (pc = "done" /\ op = "score_against_persona" /\ result.status = "ok") =>
        /\ result.pace \in 200..980
        /\ result.clarity \in 200..980
        /\ result.confidence \in 200..980
        /\ result.fillerControl \in 200..980
        /\ result.overall \in 200..980

\* a catalog persona scored at the lowest pace and the highest filler
\* control
C5_Witness ==
    /\ pc = "done" /\ op = "score_against_persona" /\ result.status = "ok"
    /\ persona \in {Persona("dict", t) : t \in CatalogTargets}
    /\ result.pace = 200
    /\ result.fillerControl = 980

\* C6: in every result of score_against_persona clarity is 0.9, confidence
\* equals fillerControl, and overall is the mean of the four rounded
\* dimension values rounded to 3 decimal places, that is
\* round((pace + 0.9 + 2 * fillerControl) / 4, 3).
C6_OverallIsMean ==
    (pc = "done" /\ op = "score_against_persona" /\ result.status = "ok") =>
        /\ result.clarity = 900
        /\ result.confidence = result.fillerControl
        /\ Abs(4 * result.overall
                 - (result.pace + result.clarity + result.confidence
                       + result.fillerControl)) <= 2
        /\ Abs(4 * result.overall
                 - (result.pace + 900 + 2 * result.fillerControl)) <= 2

C6_Witness ==
    /\ pc = "done" /\ op = "score_against_persona" /\ result.status = "ok"
    /\ result.pace = 800
    /\ result.fillerControl = 590
    /\ result.overall = 720

---------------------------------------------------------------------------
(* Properties: the service *)

\* the metrics m of a request body and the score of m for the body's persona
\* in the catalog the service starts with
AnalysisResult(body, m) ==
    [request |-> body, metrics |-> m,
     personaScore |-> score_against_persona(MetricsArg(m),
                          get_persona(PersonaCatalog, body.personaId))]

\* what compute_metrics and score_against_persona give for each request body
AnalysisResults ==
    {AnalysisResult(body, compute_metrics(body.transcript, body.durationSeconds)) :
        body \in AnalyzeSpeechRequests}

\* the metrics and the score of the response are those of the request alone
AnalysisOf(request, response) ==
    \E r \in AnalysisResults :
        /\ r.request = request
        /\ r.metrics = response.metrics
        /\ r.personaScore = response.personaScore

\* C11: after any sequence of analyze_speech, confirm_feedback and
\* api_get_personas requests, however their steps interleave, the persona
\* catalog is what it was at the start, and the metrics and personaScore
\* analyze_speech returned for a request are those it returned for the same
\* (personaId, transcript, durationSeconds) at any other point: they are
\* compute_metrics of the request's transcript and duration and
\* score_against_persona of these metrics and the catalog's persona,
\* whatever requests came before and whatever the attempt cache holds.
C11_AnalysisDependsOnInputsOnly ==
    /\ PERSONAS = PersonaCatalog
    /\ op = "api_get_personas" => result.personas = get_personas(PersonaCatalog)
    /\ \A a \in calls : \A b \in calls :
          a.request = b.request =>
              /\ a.response.metrics = b.response.metrics
              /\ a.response.personaScore = b.response.personaScore
    /\ \A a \in calls : AnalysisOf(a.request, a.response)

\* the sample request analysed twice, the second time with the first
\* attempt in the cache, a line of it in the log and a confirm_feedback
\* served since; both times its wpm is the double above 175, which is more
\* than half the range above persona leader's [130, 160], so that the pace
\* is 0.2 and the overall score 0.375
C11_Witness ==
    /\ op = "confirm_feedback"
    /\ DOMAIN attempt_cache = {1, 2}
    /\ session_log # <<>>
    /\ \E a \in calls : \E b \in calls :
          /\ a.response.attemptId = 1 /\ b.response.attemptId = 2
          /\ a.request = SampleRequest /\ b.request = SampleRequest
          /\ a.response.coaching # b.response.coaching
          /\ a.response.metrics = b.response.metrics
          /\ a.response.personaScore = b.response.personaScore
          /\ a.response.metrics.wpm = FloatAbove(FloatInt(175))
          /\ a.response.personaScore.pace = 200
          /\ a.response.personaScore.overall = 375

\* the outcomes of the TTS call the claim names: a URL, an empty result, an
\* exception
TtsOutcomes ==
    { [status |-> "ok", value |-> PyStr(<<"https://murf.ai/a.mp3">>)],
      [status |-> "ok", value |-> PyStr(<<>>)],
      TtsRaised }

\* the response r to confirm_feedback for the attempt id, the TTS call
\* ending in tts: known and stored are what the cache holds for id, url
\* tells that the call returned a URL
ConfirmFeedbackAnswer(r, tts, known, stored, url) ==
    /\ r.status = 200
    /\ r.audioUrl.some # r.fallbackText.some
    /\ r.audioUrl.some => url /\ r.audioUrl.v = tts.value.v
    /\ ~known => r.fallbackText = Some(NoTextFound) /\ ~r.tts_called
    /\ (known /\ stored = <<>>) =>
          r.fallbackText = Some(NoTextAvailable) /\ ~r.tts_called
    /\ (known /\ stored # <<>>) =>
          /\ r.tts_called
          /\ url => r.audioUrl = Some(tts.value.v)
          /\ ~url => r.fallbackText = Some(stored)

\* C12: confirm_feedback never fails: for every attemptId, cached or not,
\* and every outcome of the TTS call (a URL, an empty result, an exception)
\* it returns a response in which exactly one of audioUrl and fallbackText
\* is set; audioUrl is set only when the TTS call returned a non-empty URL,
\* and is that URL; for an unknown attemptId or an empty stored coaching
\* text fallbackText is a 'no coaching text' message and the TTS call is
\* not made; when the TTS call fails or returns nothing, fallbackText is the
\* coaching text stored for the attempt.
C12_ConfirmFeedbackTotal ==
    /\ op = "confirm_feedback" =>
          /\ result.status = 200
          /\ result.audioUrl.some # result.fallbackText.some
    /\ \A id \in AttemptIds \cup {0} : \A tts \in TtsOutcomes :
          /\ confirm_feedback(attempt_cache, id, tts) # {}
          /\ \A r \in confirm_feedback(attempt_cache, id, tts) :
                ConfirmFeedbackAnswer(r, tts,
                    id \in DOMAIN attempt_cache,
                    IF id \in DOMAIN attempt_cache
                    THEN attempt_cache[id].coachingText ELSE <<>>,
                    tts.status = "ok" /\ tts.value.v # <<>>)

\* the entry analyze_speech stores for a request and its payload
EntryOf(request, payload) ==
    [personaId |-> request.personaId,
     coachingText |-> payload.coachingTextForTTS]

\* C13 as stated: at every reachable state attempt_cache holds exactly one
\* entry per analyze_speech call that completed successfully, keyed by the
\* attemptId that call returned and holding its personaId and its
\* coachingTextForTTS
C13_AsStated ==
    /\ DOMAIN attempt_cache = {c.response.attemptId : c \in calls}
    /\ Cardinality(DOMAIN attempt_cache) = Cardinality(calls)
    /\ \A c \in calls :
          attempt_cache[c.response.attemptId] = EntryOf(c.request, c.response)

\* the analyze_speech requests that have stored their entry and have yet to
\* return: they wait in log_session, or they have left log_session and have
\* their return statement left
Stored == WaitingAt("log_session") \cup WaitingAt("return")

\* the cache holds one entry per call that returned a payload and one per
\* request that has stored its entry and not returned yet, under the
\* attemptId of the payload; the log holds lines of calls that have left
\* log_session only, returned or not, at most one per call;
\* confirm_feedback for a returned attemptId reads the call's coaching text
C13_CacheHoldsTheCalls ==
    /\ DOMAIN attempt_cache = {c.response.attemptId : c \in calls}
                                \cup {w.response_payload.attemptId : w \in Stored}
    /\ Cardinality(DOMAIN attempt_cache)
          = Cardinality(calls) + CountAt("log_session") + CountAt("return")
    /\ \A c \in calls :
          attempt_cache[c.response.attemptId] = EntryOf(c.request, c.response)
    /\ \A w \in Stored :
          attempt_cache[w.response_payload.attemptId]
              = EntryOf(w.body, w.response_payload)
    /\ \A i \in DOMAIN session_log :
          /\ \/ \E c \in calls :
                   /\ session_log[i].attemptId = c.response.attemptId
                   /\ session_log[i].personaId = c.request.personaId
             \/ \E w \in WaitingAt("return") :
                   /\ session_log[i].attemptId = w.response_payload.attemptId
                   /\ session_log[i].personaId = w.body.personaId
          /\ \A j \in DOMAIN session_log :
                session_log[i].attemptId = session_log[j].attemptId => i = j
    /\ \A c \in calls :
          c.response.coachingTextForTTS # <<>> =>
              /\ confirm_feedback(attempt_cache, c.response.attemptId, TtsRaised) # {}
              /\ \A r \in confirm_feedback(attempt_cache, c.response.attemptId,
                                           TtsRaised) :
                    r.fallbackText = Some(c.response.coachingTextForTTS)

\* the requests of the bag infl that wait in the call named at, with their
\* numbers of copies
BagAt(infl, at) ==
    [w \in {x \in BagToSet(infl) : x.at = at} |-> infl[w]]

\* what a step of a request does to the cache and the log: no entry is
\* removed or changed; the cache changes only when an analyze_speech request
\* leaves generate_coaching_with_gemini for log_session, by the entry of its
\* payload's attemptId; the log changes only when an analyze_speech request
\* leaves log_session, by one line of its payload, and no request is
\* answered in that step; the return of the payload, a step of
\* confirm_feedback, a request answered at once (api_get_personas, an
\* analyze_speech rejected for its personaId) and an analyze_speech that
\* fails after generate_coaching_with_gemini leave both as they are
C13_CacheStep ==
    LET Murf(infl) == BagAt(infl, "generate_tts_with_murf")
        Gemini(infl) == BagAt(infl, "generate_coaching_with_gemini")
        Log(infl) == BagAt(infl, "log_session")
        Return(infl) == BagAt(infl, "return")
    IN  /\ \A k \in DOMAIN attempt_cache :
              k \in DOMAIN attempt_cache' /\ attempt_cache'[k] = attempt_cache[k]
        /\ Murf(inflight') # Murf(inflight) =>
              attempt_cache' = attempt_cache /\ session_log' = session_log
        /\ inflight' = inflight =>
              attempt_cache' = attempt_cache /\ session_log' = session_log
        /\ (Gemini(inflight') # Gemini(inflight) /\ Log(inflight') = Log(inflight)) =>
              attempt_cache' = attempt_cache /\ session_log' = session_log
        /\ (Return(inflight') # Return(inflight) /\ Log(inflight') = Log(inflight)) =>
              /\ attempt_cache' = attempt_cache /\ session_log' = session_log
              /\ op' = "analyze_speech"
              /\ \E w \in DOMAIN Return(inflight) :
                    /\ CopiesIn(w, inflight) = CopiesIn(w, inflight') + 1
                    /\ result' = w.response_payload
        /\ attempt_cache' # attempt_cache =>
              \E w \in DOMAIN Log(inflight') :
                  /\ CopiesIn(w, inflight') = CopiesIn(w, inflight) + 1
                  /\ w.response_payload.attemptId \notin DOMAIN attempt_cache
                  /\ DOMAIN attempt_cache'
                        = DOMAIN attempt_cache \cup {w.response_payload.attemptId}
                  /\ attempt_cache'[w.response_payload.attemptId]
                        = EntryOf(w.body, w.response_payload)
                  /\ BagCardinality(Gemini(inflight))
                        = BagCardinality(Gemini(inflight')) + 1
                  /\ session_log' = session_log
        /\ session_log' # session_log =>
              \E w \in DOMAIN Log(inflight) :
                  /\ CopiesIn(w, inflight) = CopiesIn(w, inflight') + 1
                  /\ CopiesIn([w EXCEPT !.at = "return"], inflight')
                        = CopiesIn([w EXCEPT !.at = "return"], inflight) + 1
                  /\ UNCHANGED <<pc, op, result>>
                  /\ Len(session_log') = Len(session_log) + 1
                  /\ SubSeq(session_log', 1, Len(session_log)) = session_log
                  /\ session_log'[Len(session_log')].attemptId
                        = w.response_payload.attemptId
                  /\ attempt_cache' = attempt_cache

\* C13: at every reachable state attempt_cache holds exactly one entry per
\* analyze_speech call that has stored its entry, which are the calls that
\* completed successfully and the calls that have stored their entry and
\* not returned yet (they wait in log_session, or they have left it and
\* have the return left), keyed by the attemptId of the call's payload and
\* holding the call's personaId and coachingTextForTTS; an analyze_speech
\* rejected for an unknown personaId adds no entry and writes no session
\* log, confirm_feedback never adds, changes or removes an entry, and no
\* entry is ever removed or overwritten, so a confirm_feedback that follows
\* a successful analyze_speech with its attemptId finds that call's
\* coaching text.
C13_AttemptCache == [](C13_CacheHoldsTheCalls) /\ [][C13_CacheStep]_vars

\* the first attempt has returned and its log write failed; the second has
\* stored its entry and written its log line and has not returned; a
\* confirm_feedback for the first attempt, made meanwhile, has found its
\* coaching text
C13_Witness ==
    /\ op = "confirm_feedback"
    /\ DOMAIN attempt_cache = {1, 2}
    /\ Len(session_log) = 1
    /\ session_log[1].attemptId = 2
    /\ \E c \in calls : c.response.attemptId = 1
    /\ \E w \in WaitingAt("return") : w.response_payload.attemptId = 2
    /\ attempt_cache[1].personaId = "leader"
    /\ attempt_cache[1].coachingText # <<>>
    /\ attempt_cache[2].coachingText = <<>>
    /\ result.fallbackText = Some(attempt_cache[1].coachingText)
    /\ result.tts_called
====
